---- MODULE Spec2Model ----
(***************************************************************************)
(* Verification model of the TeCNNis tennis pipeline                       *)
(* (src/2_TeCNNis_Paper/TeCCNis_Code.py): coordinate mapping, linear       *)
(* weight assignment, dataset balancing and splitting, and the clamped     *)
(* frame-sequence window used for training and for inference.              *)
(*                                                                         *)
(* Real numbers are exact rationals <<numerator, denominator>> with a      *)
(* positive denominator; a missing value (None / NaN) is the pair <<0,0>>. *)
(* Python lists are sequences; At(s, i) reads Python index i.              *)
(***************************************************************************)
EXTENDS Integers, Sequences, FiniteSets, TLC

\* ------------------------------------------------------------------ bounds
\* Distances tried by map_coordinates are k/2 metres, k in -1..MaxDist.
MaxDist == 5
\* Court dimensions tried are the integers -1..MaxCourt (metres).
MaxCourt == 2
\* Normalised coordinates tried are k/NormDen, k in -1..NormDen+1.
NormDen == 4
\* A video group given to assign_linear_weights has 1..MaxRows rows.
MaxRows == 3
\* total_frames_window is tried over 1..MaxWindow.
MaxWindow == 5
\* decay_rate is tried over k/4, k in 1..MaxDecay.
MaxDecay == 3
\* The weighted frame table given to balance_and_split_data holds 0..MaxPos
\* rows of weight > 0 and 0..MaxNeg rows of weight 0.
MaxPos == 3
MaxNeg == 4
\* balance_ratio is tried over k/4, k in 0..MaxRatio.
MaxRatio == 6
\* test_size and val_size are tried over k/FracDen, k in 0..FracDen.
FracDen == 4
\* n_frames_sequence is tried over 1..MaxSeqLen.
MaxSeqLen == 5
\* videos in a batch of get_sequences
MaxVideos == 2
\* frames of the video whose sequence the notebook prepares
MaxFrames == 10
\* weight-0 frames of the other videos of the dataset
MaxOtherNonHit == 30

\* frames a frames directory holds at inference
MaxFiles == 2

\* training runs of up to MaxEpochs epochs, patience up to MaxPatience, losses
\* 0..MaxLoss and min_improvement 0..MaxImprovement (in loss units)
MaxEpochs == 5

MaxPatience == 2

MaxLoss == 2

MaxImprovement == 1

\* labeling sessions: videos of up to MaxToolFrames frames, up to MaxToolVideos
\* videos in tag_frames.py, up to MaxDirs frame directories in
\* tag_frames_multiple.py
MaxToolFrames == 2

MaxToolVideos == 2

MaxDirs == 2

\* ------------------------------------------------------- configuration
DOUBLES_COURT_WIDTH_M == <<1097, 100>>

HALF_COURT_LENGTH_M == <<1189, 100>>

CNN1_N_FRAMES_WEIGHTING == 9

CNN1_WEIGHT_DECAY == <<3, 10>>

CNN1_BALANCE_RATIO == 4

CNN2_N_FRAMES_SEQUENCE == 9

\* --------------------------------------------------------------- rationals
Null == <<0, 0>>

isna(r) == r[2] = 0

Rat(n, d) == <<n, d>>

RatLE(a, b) == a[1] * b[2] <= b[1] * a[2]

RatLT(a, b) == a[1] * b[2] < b[1] * a[2]

RatEq(a, b) == a[1] * b[2] = b[1] * a[2]

RatSub(a, b) == <<a[1] * b[2] - b[1] * a[2], a[2] * b[2]>>

RatAdd(a, b) == <<a[1] * b[2] + b[1] * a[2], a[2] * b[2]>>

RatMul(a, b) == <<a[1] * b[1], a[2] * b[2]>>

\* a / b for b > 0 (the only divisors are positive court dimensions)
RatDiv(a, b) == <<a[1] * b[2], a[2] * b[1]>>

Zero == Rat(0, 1)

Unit == Rat(1, 1)

\* np.clip(x, lo, hi) = minimum(maximum(x, lo), hi)
clip(x, lo, hi) ==
    LET m == IF RatLT(x, lo) THEN lo ELSE x
    IN  IF RatLT(hi, m) THEN hi ELSE m

\* ---------------------------------------------------------------- state
VARIABLES
    c_op,     \* coordinate component: the last call made
    c_args,   \* its arguments
    c_res     \* its return value

VARIABLES
    w_pc,       \* weight assignment: "none" before the call, "done" after it
    w_group,    \* the video group: rows [frame_path, is_hit_frame] in row order
    w_window,   \* total_frames_window
    w_decay,    \* decay_rate
    w_middle,   \* middle_hit_frame_index_in_group (-1: the group has no hit row)
    w_weight,   \* the 'weight' column of the returned group
    w_result    \* the returned group: rows [frame_path, is_hit_frame, weight]

VARIABLES
    b_pc,        \* balance_and_split_data: "none", "done" (returned), "error" (raised)
    b_weight,    \* the 'weight' column of df_weighted, one entry per row
    b_ratio,     \* balance_ratio
    b_test_size, \* test_size
    b_val_size,  \* val_size
    b_balanced,  \* the rows of balanced_df
    b_train,     \* the rows behind train_paths
    b_val,       \* the rows behind val_paths
    b_test       \* the rows behind test_paths

VARIABLES
    q_pc,       \* get_sequences, one video group: "none" before, "done" after
    q_group,    \* the rows [frame_path, weight] of the video in the balanced table
    q_landing,  \* whether shot_id is in landing_df_indexed.index
    q_n,        \* n_frames_sequence
    q_sorted,   \* sorted_paths
    q_hit_idx,  \* hit_idx_sorted (-1: not determined)
    q_outcome,  \* "success", "no_hit", "no_landing", "parse" or "short"
    q_seq       \* seq_paths

VARIABLES
    p_pc,       \* predict_hit_and_landing, sequence construction: "none" / "done"
    p_sorted,   \* sorted_frame_paths
    p_hit_idx,  \* pred_hit_idx
    p_n,        \* n_frames_sequence, after the adjustment of an even value
    p_seq       \* sequence_paths

VARIABLES
    s_pc,        \* get_sequences: "none", "loop", "summary" (returned after the
                 \* loop) or "empty_input" (returned by the guard on empty tables)
    s_videos,    \* video_groups: per video the rows [frame_path, weight]
    s_landing,   \* landing_df_indexed.index: the shot ids with a landing record
    s_n,         \* n_frames_sequence
    s_i,         \* the number of groups the loop has gone through
    s_sequences, \* sequences_for_dataset: records [video, sequence_paths]
    s_skipped_no_hit,
    s_skipped_no_landing,
    s_skipped_parse,
    s_skipped_short

VARIABLES
    t_pc,       \* sequence preparation of one video: "none" / "done"
    t_video,    \* the rows [frame_path, is_hit_frame] of the video in df_meta
    t_weight,   \* their 'weight' column in df_weighted_linear
    t_balanced, \* the positions of the rows kept in df_balanced_cnn1
    t_landing,  \* whether the shot has a landing record
    t_n,        \* n_frames_sequence
    t_sorted,   \* sorted_paths of the group inside get_sequences
    t_hit_idx,  \* hit_idx_sorted
    t_outcome,  \* "success", "no_hit", "no_landing", "parse" or "short"
    t_seq       \* seq_paths

VARIABLES
    i_stage,       \* the stage of the inference run (see Stages)
    i_models,      \* whether both models were loaded
    i_dir,         \* the frames directory: files [path, status], or Missing
    i_n,           \* n_frames_sequence, after the adjustment of an even value
    i_sorted,      \* sorted_frame_paths
    i_k,           \* the number of frames the scoring loop has gone through
    i_predictions, \* predictions_cnn1: records [path, score]
    i_best,        \* pred_hit_path (NoPath: None)
    i_hit_idx,     \* pred_hit_idx
    i_seq,         \* sequence_paths
    i_coords,      \* predicted_norm_coords (<<Null, Null>>: None)
    i_meters,      \* the distances denormalize_coordinates returned
    i_reason,      \* why the run failed ("": it has not)
    i_ret          \* how predict_hit_and_landing ended and what it returned

VARIABLES
    r_pc,               \* run_final_training: "none", "loop", "stopped" (early stop),
                        \* "finished" (all epochs ran) or "raised" (an exception left it)
    r_epochs,           \* epochs
    r_patience,         \* patience
    r_min_improvement,  \* min_improvement
    r_train_batches,    \* len(train_loader)
    r_val_batches,      \* len(val_loader)
    r_epoch,            \* the number of epochs executed
    r_history,          \* history: [train_loss, val_loss, val_mae], three lists
    r_best_val_loss,    \* best_val_loss
    r_epochs_no_improve,\* epochs_no_improve
    r_best_epoch,       \* best_epoch
    r_file,             \* the weights in the file best_model_save_path
    r_model             \* the weights the model holds

VARIABLES
    g_pc,          \* tag_frames.py session: "none", "labeling", "closed"
    g_event,       \* the last key or window event handled
    g_video_dirs,  \* video_dirs: per video the number of its .jpg frames
    g_video_idx,   \* current_video_idx
    g_frame_idx,   \* current_frame_idx
    g_hit_frames,  \* hit_frames: records [video, frame] in insertion order
    g_csv          \* the rows save_csv wrote

VARIABLES
    m_pc,          \* tag_frames_multiple.py session: "none", "labeling", "closed"
    m_event,       \* the last key or window event handled
    m_dirs,        \* frames_dir_list: per directory its videos [name, frames]
    m_existing,    \* existing_videos: the video names already in the CSV
    m_dir_idx,     \* current_dir_idx
    m_video_idx,   \* current_video_idx
    m_frame_idx,   \* current_frame_idx
    m_selected,    \* selected_frames (as indices into frames)
    m_hit_frames,  \* hit_frames: records [video, frames, selected] in insertion order
    m_csv          \* the rows save_csv appended: [video_name, frame, is_hit_frame]

coordVars == <<c_op, c_args, c_res>>

labelVars == <<g_pc, g_event, g_video_dirs, g_video_idx, g_frame_idx, g_hit_frames, g_csv>>

multiVars == <<m_pc, m_event, m_dirs, m_existing, m_dir_idx, m_video_idx, m_frame_idx,
               m_selected, m_hit_frames, m_csv>>

trainVars == <<r_pc, r_epochs, r_patience, r_min_improvement, r_train_batches, r_val_batches,
               r_epoch, r_history, r_best_val_loss, r_epochs_no_improve, r_best_epoch,
               r_file, r_model>>

batchVars == <<s_pc, s_videos, s_landing, s_n, s_i, s_sequences, s_skipped_no_hit,
               s_skipped_no_landing, s_skipped_parse, s_skipped_short>>

pipeVars == <<t_pc, t_video, t_weight, t_balanced, t_landing, t_n, t_sorted, t_hit_idx,
              t_outcome, t_seq>>

inferVars == <<i_stage, i_models, i_dir, i_n, i_sorted, i_k, i_predictions, i_best,
               i_hit_idx, i_seq, i_coords, i_meters, i_reason, i_ret>>

seqVars == <<q_pc, q_group, q_landing, q_n, q_sorted, q_hit_idx, q_outcome, q_seq>>

predVars == <<p_pc, p_sorted, p_hit_idx, p_n, p_seq>>

balVars == <<b_pc, b_weight, b_ratio, b_test_size, b_val_size, b_balanced, b_train, b_val, b_test>>

weightVars == <<w_pc, w_group, w_window, w_decay, w_middle, w_weight, w_result>>

vars == <<c_op, c_args, c_res, w_pc, w_group, w_window, w_decay, w_middle, w_weight, w_result,
          s_pc, s_videos, s_landing, s_n, s_i, s_sequences, s_skipped_no_hit,
          s_skipped_no_landing, s_skipped_parse, s_skipped_short,
          t_pc, t_video, t_weight, t_balanced, t_landing, t_n, t_sorted, t_hit_idx,
          t_outcome, t_seq,
          i_stage, i_models, i_dir, i_n, i_sorted, i_k, i_predictions, i_best,
          i_hit_idx, i_seq, i_coords, i_meters, i_reason, i_ret,
          b_pc, b_weight, b_ratio, b_test_size, b_val_size, b_balanced, b_train, b_val, b_test,
          q_pc, q_group, q_landing, q_n, q_sorted, q_hit_idx, q_outcome, q_seq,
          p_pc, p_sorted, p_hit_idx, p_n, p_seq,
          r_pc, r_epochs, r_patience, r_min_improvement, r_train_batches, r_val_batches,
          r_epoch, r_history, r_best_val_loss, r_epochs_no_improve, r_best_epoch,
          r_file, r_model,
          g_pc, g_event, g_video_dirs, g_video_idx, g_frame_idx, g_hit_frames, g_csv,
          m_pc, m_event, m_dirs, m_existing, m_dir_idx, m_video_idx, m_frame_idx,
          m_selected, m_hit_frames, m_csv>>

\* ---------------------------------------------------------------- lists
\* Python's s[i], i >= 0
At(s, i) == s[i + 1]

Abs(x) == IF x < 0 THEN -x ELSE x

Max(a, b) == IF a < b THEN b ELSE a

Min(a, b) == IF a < b THEN a ELSE b

\* ------------------------------------------------------ CoordinateMapper
ShotTypes == {"Straight", "Cross", "Lob", "NaN"}

Dists == {Rat(k, 2) : k \in -1..MaxDist} \cup {Null}

CourtDims == {Rat(w, 1) : w \in -1..MaxCourt}

Norms == {Rat(k, NormDen) : k \in -1..(NormDen + 1)}

\* map_coordinates without the mirroring of the Straight shot
map_coordinates_mirrorless(dist_sideline, dist_baseline, shot_type, court_width, court_length) ==
    IF isna(dist_sideline) \/ isna(dist_baseline) \/ shot_type = "NaN"
       \/ shot_type \notin {"Straight", "Cross"}
       \/ RatLE(court_width, Zero) \/ RatLE(court_length, Zero)
    THEN <<Null, Null>>
    ELSE <<clip(RatDiv(dist_sideline, court_width), Zero, Unit),
           clip(RatDiv(dist_baseline, court_length), Zero, Unit)>>

\* map_coordinates without the final np.clip
map_coordinates_unclipped(dist_sideline, dist_baseline, shot_type, court_width, court_length) ==
    IF isna(dist_sideline) \/ isna(dist_baseline) \/ shot_type = "NaN"
       \/ shot_type \notin {"Straight", "Cross"}
       \/ RatLE(court_width, Zero) \/ RatLE(court_length, Zero)
    THEN <<Null, Null>>
    ELSE <<IF shot_type = "Straight"
           THEN RatDiv(RatSub(court_width, dist_sideline), court_width)
           ELSE RatDiv(dist_sideline, court_width),
           RatDiv(dist_baseline, court_length)>>

\* map_coordinates without the membership test on shot_type
map_coordinates_anyshot(dist_sideline, dist_baseline, shot_type, court_width, court_length) ==
    IF isna(dist_sideline) \/ isna(dist_baseline) \/ shot_type = "NaN"
       \/ RatLE(court_width, Zero) \/ RatLE(court_length, Zero)
    THEN <<Null, Null>>
    ELSE <<clip(IF shot_type = "Straight"
                THEN RatDiv(RatSub(court_width, dist_sideline), court_width)
                ELSE RatDiv(dist_sideline, court_width), Zero, Unit),
           clip(RatDiv(dist_baseline, court_length), Zero, Unit)>>

map_coordinates(dist_sideline, dist_baseline, shot_type, court_width, court_length) ==
    IF isna(dist_sideline) \/ isna(dist_baseline) \/ shot_type = "NaN"
       \/ shot_type \notin {"Straight", "Cross"}
       \/ RatLE(court_width, Zero) \/ RatLE(court_length, Zero)
    THEN <<Null, Null>>
    ELSE LET y_norm == RatDiv(dist_baseline, court_length)
             x_norm == IF shot_type = "Straight"
                       THEN RatDiv(RatSub(court_width, dist_sideline), court_width)
                       ELSE RatDiv(dist_sideline, court_width)
         IN  <<clip(x_norm, Zero, Unit), clip(y_norm, Zero, Unit)>>

\* denormalize_coordinates without the leading np.clip
denormalize_coordinates_unclipped(norm_x, norm_y, court_width, court_length) ==
    IF RatLE(court_width, Zero) \/ RatLE(court_length, Zero)
    THEN <<Null, Null, Null>>
    ELSE <<RatMul(norm_x, court_width),
           RatSub(court_width, RatMul(norm_x, court_width)),
           RatMul(norm_y, court_length)>>

denormalize_coordinates(norm_x, norm_y, court_width, court_length) ==
    LET nx == clip(norm_x, Zero, Unit)
        ny == clip(norm_y, Zero, Unit)
    IN  IF RatLE(court_width, Zero) \/ RatLE(court_length, Zero)
        THEN <<Null, Null, Null>>
        ELSE LET dist_from_left_m == RatMul(nx, court_width)
                 dist_from_right_m == RatSub(court_width, dist_from_left_m)
                 dist_from_baseline_m == RatMul(ny, court_length)
             IN  <<dist_from_left_m, dist_from_right_m, dist_from_baseline_m>>

\* The sideline distance a shot type is measured from: a Straight shot from
\* the right sideline, a Cross shot from the left one.
SidelineOf(shot_type, dists) == IF shot_type = "Straight" THEN dists[2] ELSE dists[1]

\* -------------------------------------------------------- WeightAssigner
\* A frame file name: a stem and the digits that follow it (-1: no digits).
\* "frame_0007.jpg" is [stem |-> "frame_", digits |-> 7].
FrameName(stem, digits) == [stem |-> stem, digits |-> digits]

\* re.search(r'frame_(\d+)', basename): the number, or -1 when nothing matches
parse_frame_num(frame_path) ==
    IF frame_path.stem = "frame_" /\ frame_path.digits >= 0
    THEN frame_path.digits
    ELSE -1

\* a frame number that falls back to 0 for every unparsable name
frame_num_zero(group, pos) ==
    LET n == parse_frame_num(At(group, pos).frame_path)
    IN  IF n = -1 THEN 0 ELSE n

\* the frame number of the row at position pos of the group: parsed from the
\* name, else the row's position in the group (group.index.get_loc)
frame_num(group, pos) ==
    LET n == parse_frame_num(At(group, pos).frame_path)
    IN  IF n = -1 THEN pos ELSE n

\* the positions (0-based, in row order) from i on of the rows marked as hit
RECURSIVE HitPositionsFrom(_, _)
HitPositionsFrom(group, i) ==
    IF i >= Len(group) THEN <<>>
    ELSE (IF At(group, i).is_hit_frame = 1 THEN <<i>> ELSE <<>>)
         \o HitPositionsFrom(group, i + 1)

\* hit_frames = group[group['is_hit_frame'] == 1], as positions in the group
hit_frames(group) == HitPositionsFrom(group, 0)

\* hit_frames.iloc[len(hit_frames) // 2].name, -1 when hit_frames is empty
middle_hit_lower(group) ==
    LET hits == hit_frames(group)
    IN  IF hits = <<>> THEN -1 ELSE At(hits, (Len(hits) - 1) \div 2)

middle_hit_frame_index_in_group(group) ==
    LET hits == hit_frames(group)
    IN  IF hits = <<>> THEN -1 ELSE At(hits, Len(hits) \div 2)

\* the weight of the row at position pos
linear_weight_nowindow(group, pos, middle, total_frames_window, decay_rate) ==
    LET distance == Abs(frame_num(group, pos) - frame_num(group, middle))
        w == RatSub(Unit, RatMul(Rat(distance, 1), decay_rate))
    IN  IF pos = middle THEN Unit
        ELSE IF RatLT(w, Zero) THEN Zero ELSE w

\* a weight that grows with the distance inside the window
linear_weight_rising(group, pos, middle, total_frames_window, decay_rate) ==
    LET window_half == total_frames_window \div 2
        distance == Abs(frame_num(group, pos) - frame_num(group, middle))
        w == RatMul(Rat(distance, 1), decay_rate)
    IN  IF pos = middle THEN Unit
        ELSE IF distance <= window_half
             THEN (IF RatLT(Unit, w) THEN Unit ELSE w)
             ELSE Zero

linear_weight(group, pos, middle, total_frames_window, decay_rate) ==
    LET window_half == total_frames_window \div 2
        distance == Abs(frame_num(group, pos) - frame_num(group, middle))
        w == RatSub(Unit, RatMul(Rat(distance, 1), decay_rate))
    IN  IF pos = middle THEN Unit
        ELSE IF distance <= window_half
             THEN (IF RatLT(w, Zero) THEN Zero ELSE w)
             ELSE Zero

\* the 'weight' column assign_linear_weights returns, in row order
assign_linear_weights(group, total_frames_window, decay_rate) ==
    LET middle == middle_hit_frame_index_in_group(group)
    IN  [i \in 1..Len(group) |->
            IF middle = -1 THEN Zero
            ELSE linear_weight(group, i - 1, middle, total_frames_window, decay_rate)]

\* a group that loses its rows when no row is marked as hit
weighted_group_hits_only(group, total_frames_window, decay_rate) ==
    LET weight == assign_linear_weights(group, total_frames_window, decay_rate)
        rows == [i \in 1..Len(group) |->
                    [frame_path |-> group[i].frame_path,
                     is_hit_frame |-> group[i].is_hit_frame,
                     weight |-> weight[i]]]
    IN  IF hit_frames(group) = <<>> THEN <<>> ELSE rows

\* the group assign_linear_weights returns: a copy of the rows of the group,
\* in row order, with the 'weight' column set
weighted_group(group, total_frames_window, decay_rate) ==
    LET weight == assign_linear_weights(group, total_frames_window, decay_rate)
    IN  [i \in 1..Len(group) |->
            [frame_path |-> group[i].frame_path,
             is_hit_frame |-> group[i].is_hit_frame,
             weight |-> weight[i]]]

\* The file names of a video directory: frames written by the extractor
\* (frame_0000.jpg, ...; the rows of a group need not hold every frame) and
\* one image whose name holds no "frame_<digits>".
FrameNames ==
    {FrameName("frame_", n) : n \in 0..MaxRows} \cup {FrameName("img", -1)}

\* the rows of one video: distinct frame paths, each marked hit or not
Groups ==
    UNION {
        {g \in [1..n -> [frame_path : FrameNames, is_hit_frame : {0, 1}]] :
            \A i, j \in 1..n : i # j => g[i].frame_path # g[j].frame_path}
        : n \in 1..MaxRows}

DecayRates == {Rat(k, 4) : k \in 1..MaxDecay}

WeightInit ==
    /\ w_pc = "none"
    /\ w_group = <<>>
    /\ w_window = 0
    /\ w_decay = Zero
    /\ w_middle = -1
    /\ w_weight = <<>>
    /\ w_result = <<>>

\* ----------------------------------------------- DatasetBalancer/Splitter
\* int(x) of a rational x >= 0
int(x) == x[1] \div x[2]

\* math.ceil(x) of a rational x >= 0
ceil(x) == (x[1] + x[2] - 1) \div x[2]

\* round(x) of a rational x >= 0: to the nearest integer, a tie to the even one
round(x) ==
    LET q == x[1] \div x[2]
        r == x[1] % x[2]
    IN  IF 2 * r < x[2] THEN q
        ELSE IF 2 * r > x[2] THEN q + 1
        ELSE IF q % 2 = 0 THEN q ELSE q + 1

\* hit_frames_weighted / non_hit_frames: the rows (1-based) with weight > 0 / == 0
hit_frames_weighted(weight) == {i \in 1..Len(weight) : RatLT(Zero, weight[i])}

non_hit_frames(weight) == {i \in 1..Len(weight) : RatEq(weight[i], Zero)}

target_non_hit_count_rounded(balance_ratio, n_hit) == round(RatMul(balance_ratio, Rat(n_hit, 1)))

\* a target rounded up instead of truncated
target_non_hit_count_ceil(balance_ratio, n_hit) == ceil(RatMul(balance_ratio, Rat(n_hit, 1)))

target_non_hit_count(balance_ratio, n_hit) == int(RatMul(balance_ratio, Rat(n_hit, 1)))

sample_size(weight, balance_ratio) ==
    Min(Cardinality(non_hit_frames(weight)),
        target_non_hit_count(balance_ratio, Cardinality(hit_frames_weighted(weight))))

\* DataFrame.sample(n=n): every choice of n distinct rows
sample(rows, n) == {x \in SUBSET rows : Cardinality(x) = n}

\* the outcomes of sampled_non_hit
sampled_non_hit(weight, balance_ratio) ==
    IF sample_size(weight, balance_ratio) > 0
    THEN sample(non_hit_frames(weight), sample_size(weight, balance_ratio))
    ELSE {{}}

\* sklearn's train_test_split(items, test_size=test_size, stratify=weight > 0)
\* raises ValueError for a test_size outside (0,1), for an empty train part, for
\* a class with a single member and for a part smaller than the number of classes
n_test_of(items, test_size) == ceil(RatMul(test_size, Rat(Cardinality(items), 1)))

classes(items, weight) == {RatLT(Zero, weight[i]) : i \in items}

train_test_split_raises(items, weight, test_size) ==
    \/ ~(RatLT(Zero, test_size) /\ RatLT(test_size, Unit))
    \/ Cardinality(items) - n_test_of(items, test_size) = 0
    \/ \E c \in classes(items, weight) :
          Cardinality({i \in items : RatLT(Zero, weight[i]) = c}) < 2
    \/ n_test_of(items, test_size) < Cardinality(classes(items, weight))
    \/ Cardinality(items) - n_test_of(items, test_size) < Cardinality(classes(items, weight))

\* the test parts train_test_split can return (the train part is the rest):
\* n_test items, each class represented in proportion, rounded down or up
train_test_split(items, weight, test_size) ==
    LET n == Cardinality(items)
        n_test == n_test_of(items, test_size)
    IN  {x \in SUBSET items :
            /\ Cardinality(x) = n_test
            /\ \A c \in classes(items, weight) :
                  LET k == Cardinality({i \in items : RatLT(Zero, weight[i]) = c})
                      t == Cardinality({i \in x : RatLT(Zero, weight[i]) = c})
                  IN  /\ (n_test * k) \div n <= t
                      /\ t <= (n_test * k + n - 1) \div n}

\* the remainder handed to the second split, wrongly the whole balanced set
train_val_paths_all(balanced, test) == balanced

\* train_val_paths: what the first split leaves after the test part
train_val_paths(balanced, test) == balanced \ test

relative_val_size(val_size, test_size) ==
    IF RatLT(Zero, RatSub(Unit, test_size))
    THEN Rat(val_size[1] * test_size[2], val_size[2] * (test_size[2] - test_size[1]))
    ELSE Zero

\* fewer than 3 balanced examples handed back whole as the training part
not_enough_data_as_train(balanced) == [pc |-> "done", train |-> balanced]

\* `if len(all_paths) < 3: raise ValueError(...)`: the call ends before any split
not_enough_data(balanced) == [pc |-> "error", train |-> {}]

\* the rows of df_weighted: the first n_hit rows have a positive weight (1.0
\* for the first, 0.5 for the others), the other rows have weight 0
WeightColumn(n_hit, n_non_hit) ==
    [i \in 1..(n_hit + n_non_hit) |->
        IF i = 1 /\ n_hit > 0 THEN Unit ELSE IF i <= n_hit THEN Rat(1, 2) ELSE Zero]

BalanceRatios == {Rat(k, 4) : k \in 0..MaxRatio}

Fractions == {Rat(k, FracDen) : k \in 0..FracDen}

BalInit ==
    /\ b_pc = "none"
    /\ b_weight = <<>>
    /\ b_ratio = Zero
    /\ b_test_size = Zero
    /\ b_val_size = Zero
    /\ b_balanced = {}
    /\ b_train = {}
    /\ b_val = {}
    /\ b_test = {}

\* -------------------------------------------------------- SequenceBuilder
\* np.clip on integers
clip_int(i, lo, hi) == Min(Max(i, lo), hi)

\* the paths of rows sorted by frame number (the numbers of a group are distinct)
RECURSIVE sort_by_frame_num(_)
sort_by_frame_num(paths) ==
    IF paths = {} THEN <<>>
    ELSE LET first == CHOOSE x \in paths :
                          \A y \in paths : parse_frame_num(x) <= parse_frame_num(y)
         IN  <<first>> \o sort_by_frame_num(paths \ {first})

\* list.index(x): the first 0-based position holding x
index_of(s, x) == CHOOSE i \in 0..(Len(s) - 1) : At(s, i) = x /\ \A j \in 0..(i - 1) : At(s, j) # x

\* a window that drops the indices outside the video instead of clamping them
seq_paths_shrunk(sorted_paths, hit_idx_sorted, n_frames_sequence) ==
    LET half_window == n_frames_sequence \div 2
        start_idx == Max(hit_idx_sorted - half_window, 0)
        end_idx == Min(hit_idx_sorted + half_window, Len(sorted_paths) - 1)
    IN  [k \in 1..(end_idx - start_idx + 1) |-> At(sorted_paths, start_idx + k - 1)]

\* a window that starts at the hit frame instead of half a window before it
seq_paths_forward(sorted_paths, hit_idx_sorted, n_frames_sequence) ==
    LET half_window == n_frames_sequence \div 2
        start_idx == hit_idx_sorted
        end_idx == hit_idx_sorted + 2 * half_window
    IN  [k \in 1..(end_idx + 1 - start_idx) |->
            At(sorted_paths, clip_int(start_idx + k - 1, 0, Len(sorted_paths) - 1))]

\* get_sequences: seq_paths, the window around hit_idx_sorted
seq_paths(sorted_paths, hit_idx_sorted, n_frames_sequence) ==
    LET half_window == n_frames_sequence \div 2
        start_idx == hit_idx_sorted - half_window
        end_idx == hit_idx_sorted + half_window
        num_total == Len(sorted_paths)
    IN  [k \in 1..(end_idx + 1 - start_idx) |->
            At(sorted_paths, clip_int(start_idx + k - 1, 0, num_total - 1))]

\* a window that starts one frame late
sequence_paths_shifted(sorted_frame_paths, pred_hit_idx, n_frames_sequence) ==
    LET half_win == n_frames_sequence \div 2
        start_idx == pred_hit_idx - half_win + 1
        end_idx == pred_hit_idx + half_win + 1
    IN  [k \in 1..(end_idx + 1 - start_idx) |->
            At(sorted_frame_paths, clip_int(start_idx + k - 1, 0, Len(sorted_frame_paths) - 1))]

\* predict_hit_and_landing: sequence_paths, the window around pred_hit_idx
sequence_paths(sorted_frame_paths, pred_hit_idx, n_frames_sequence) ==
    LET half_win == n_frames_sequence \div 2
        start_idx == pred_hit_idx - half_win
        end_idx == pred_hit_idx + half_win
        num_total_frames == Len(sorted_frame_paths)
        indices == [k \in 1..(end_idx + 1 - start_idx) |->
                       clip_int(start_idx + k - 1, 0, num_total_frames - 1)]
    IN  [k \in 1..Len(indices) |-> At(sorted_frame_paths, indices[k])]

\* get_sequences, the body of the loop for one video group: the rows sorted
\* by frame number, the middle row of weight 1.0, the landing lookup, the window
hit_rows_sorted(group, sorted_paths) ==
    SelectSeq(sorted_paths,
              LAMBDA x : \E r \in group : r.frame_path = x /\ RatEq(r.weight, Unit))

video_sequence(group, landing, n_frames_sequence) ==
    LET paths == {r.frame_path : r \in group}
        parsed == \A x \in paths : parse_frame_num(x) # -1
        sorted_paths == sort_by_frame_num(paths)
        hits == hit_rows_sorted(group, sorted_paths)
        hit_idx_sorted == index_of(sorted_paths, At(hits, Len(hits) \div 2))
        built == seq_paths(sorted_paths, hit_idx_sorted, n_frames_sequence)
    IN  IF ~parsed
        THEN [outcome |-> "parse", sorted_paths |-> <<>>, hit_idx_sorted |-> -1,
              seq_paths |-> <<>>]
        ELSE IF hits = <<>>
        THEN [outcome |-> "no_hit", sorted_paths |-> sorted_paths, hit_idx_sorted |-> -1,
              seq_paths |-> <<>>]
        ELSE IF ~landing
        THEN [outcome |-> "no_landing", sorted_paths |-> sorted_paths,
              hit_idx_sorted |-> hit_idx_sorted, seq_paths |-> <<>>]
        ELSE [outcome |-> IF Len(built) = n_frames_sequence THEN "success" ELSE "short",
              sorted_paths |-> sorted_paths, hit_idx_sorted |-> hit_idx_sorted,
              seq_paths |-> built]

\* a skip counter that misses the videos skipped for their sequence length
counted_not_short(value, outcome, category) ==
    IF outcome = category /\ category # "short" THEN value + 1 ELSE value

\* a skip counter after one video: "skipped_<category> += 1" on that outcome
counted(value, outcome, category) ==
    IF outcome = category THEN value + 1 ELSE value

\* a loop that stops at the first video without a landing record
next_group_break(i, outcome, total) ==
    IF outcome = "no_landing" THEN total ELSE i + 1

\* the loop goes on to the next group after every outcome (continue)
next_group(i, outcome, total) == i + 1

\* sequences_for_dataset after one video
appended(sequences, video, result) ==
    IF result.outcome = "success"
    THEN Append(sequences, [video |-> video, sequence_paths |-> result.seq_paths])
    ELSE sequences

\* the groups of a batch: one or two rows out of two frame files, of weight
\* 0 or 1.0
BatchGroups ==
    {g \in SUBSET [frame_path : {FrameName("frame_", 0), FrameName("img", -1)},
                   weight : {Zero, Unit}] :
        /\ g # {}
        /\ \A r1, r2 \in g : r1.frame_path = r2.frame_path => r1 = r2}

\* the batches: video k (1-based, in groupby order) has shot id k
Batches == UNION {[1..k -> BatchGroups] : k \in 0..MaxVideos}

\* shot id 0 is a shot none of whose frames is in the table
ShotIds == 0..MaxVideos

\* ---------------------------------------- sequence preparation, one video
\* the rows of a video of L extracted frames in df_meta, the frame at index
\* h marked as hit (h = -1: none)
VideoRows(L, h) ==
    [k \in 1..L |-> [frame_path |-> FrameName("frame_", k - 1),
                     is_hit_frame |-> IF k - 1 = h THEN 1 ELSE 0]]

\* train_test_split on a table of k_pos rows of weight > 0 and k_neg rows of
\* weight 0, by the numbers of rows: whether it raises
stratified_split_raises(k_pos, k_neg, test_size) ==
    LET n == k_pos + k_neg
        n_test == ceil(RatMul(test_size, Rat(n, 1)))
        n_classes == (IF k_pos > 0 THEN 1 ELSE 0) + (IF k_neg > 0 THEN 1 ELSE 0)
    IN  \/ ~(RatLT(Zero, test_size) /\ RatLT(test_size, Unit))
        \/ n - n_test = 0
        \/ k_pos = 1
        \/ k_neg = 1
        \/ n_test < n_classes
        \/ n - n_test < n_classes

\* the numbers of rows of weight > 0 its test part can hold
stratified_test_hits(k_pos, k_neg, test_size) ==
    LET n == k_pos + k_neg
        n_test == ceil(RatMul(test_size, Rat(n, 1)))
    IN  {t \in 0..n_test :
            /\ (n_test * k_pos) \div n <= t
            /\ t <= (n_test * k_pos + n - 1) \div n
            /\ (n_test * k_neg) \div n <= n_test - t
            /\ n_test - t <= (n_test * k_neg + n - 1) \div n}

\* balance_and_split_data(df_weighted_linear, CNN1_BALANCE_RATIO), with its
\* default test_size = 0.1 and val_size = 0.1: whether the call can raise (TRUE)
\* and whether it can return (FALSE)
balance_raises(k_pos, k_neg) ==
    LET test_size == Rat(1, 10)
        val_size == Rat(1, 10)
        n_test == ceil(RatMul(test_size, Rat(k_pos + k_neg, 1)))
    IN  IF k_pos + k_neg < 3 \/ stratified_split_raises(k_pos, k_neg, test_size)
        THEN {TRUE}
        ELSE {stratified_split_raises(k_pos - t, k_neg - (n_test - t),
                                      relative_val_size(val_size, test_size)) :
                 t \in stratified_test_hits(k_pos, k_neg, test_size)}

\* the rows of the video that df_balanced_cnn1 holds
balanced_group(video, weight, balanced) ==
    {[frame_path |-> video[i].frame_path, weight |-> weight[i]] : i \in balanced}

\* the rows of one video in the balanced table: distinct frame paths, each
\* with its weight
Weights == {Zero, Rat(1, 2), Unit}

SeqGroups ==
    {g \in SUBSET [frame_path : FrameNames, weight : Weights] :
        /\ g # {}
        /\ Cardinality(g) <= MaxRows
        /\ \A r1, r2 \in g : r1.frame_path = r2.frame_path => r1 = r2}

\* the image files of a frames directory
FrameDirs == {d \in SUBSET FrameNames : Cardinality(d) <= MaxRows}

SeqInit ==
    /\ q_pc = "none"
    /\ q_group = {}
    /\ q_landing = FALSE
    /\ q_n = 0
    /\ q_sorted = <<>>
    /\ q_hit_idx = -1
    /\ q_outcome = "none"
    /\ q_seq = <<>>

PredInit ==
    /\ p_pc = "none"
    /\ p_sorted = <<>>
    /\ p_hit_idx = -1
    /\ p_n = 0
    /\ p_seq = <<>>

\* ------------------------------------------------------ InferencePipeline
\* None, for a path
NoPath == FrameName("", -1)

\* a frames directory that cannot be listed
Missing == {[path |-> NoPath, status |-> "missing"]}

Stages ==
    <<"ListFrames", "ScoreFrames", "SelectBestHit", "BuildSequence", "PredictLanding",
      "Denormalize", "Done">>

\* the image files of the frames directory: frames of the extractor and one
\* image whose name holds no digits
InferNames == {FrameName("frame_", n) : n \in 0..(MaxFiles - 1)} \cup {FrameName("img", -1)}

\* "ok": the image loads and is scored; "unreadable": cv2.imread returns None;
\* "score_error": the image loads and its scoring by CNN1 raises
FileStatus == {"ok", "unreadable", "score_error"}

InferDirs ==
    {d \in SUBSET [path : InferNames, status : FileStatus] :
        \A f1, f2 \in d : f1.path = f2.path => f1 = f2} \cup {Missing}

\* the scores CNN1 gives
Scores == {Rat(1, 4), Rat(3, 4)}

\* the coordinates CNN2 gives (not re-clipped: the second pair is outside [0,1])
Predictions == {<<Rat(1, 2), Rat(1, 4)>>, <<Rat(5, 4), Rat(-1, 4)>>}

\* re.search(r'(\d+)', f): the number in the file name, -1 when it has none
number_of(path) == path.digits

\* the files of the directory with a number in their name
listed_frames(dir) == {f.path : f \in {g \in dir : number_of(g.path) >= 0}}

\* sorted(frames_with_numbers, key=number): the paths by number
RECURSIVE sorted_frames(_)
sorted_frames(paths) ==
    IF paths = {} THEN <<>>
    ELSE LET first == CHOOSE x \in paths : \A y \in paths : number_of(x) <= number_of(y)
         IN  <<first>> \o sorted_frames(paths \ {first})

\* what reading and scoring the file gives
status_of(dir, path) == (CHOOSE f \in dir : f.path = path).status

\* a scoring loop that stops at the first frame it cannot score
next_frame_break(k, status, total) == IF status = "ok" THEN k + 1 ELSE total

\* the scoring loop goes on to the next frame, scored or not
next_frame(k, status, total) == k + 1

\* predictions_cnn1 after one frame: appended only when the frame was scored
scored(predictions, path, status, score) ==
    IF status = "ok" THEN Append(predictions, [path |-> path, score |-> score])
    ELSE predictions

\* the last of the frames of maximal score
best_hit_last(predictions) ==
    predictions[CHOOSE i \in 1..Len(predictions) :
                   /\ \A j \in 1..Len(predictions) :
                         RatLE(predictions[j].score, predictions[i].score)
                   /\ \A j \in (i + 1)..Len(predictions) :
                         RatLT(predictions[j].score, predictions[i].score)]

\* max(predictions_cnn1, key=score): the first of the items of maximal score
best_hit(predictions) ==
    predictions[CHOOSE i \in 1..Len(predictions) :
                   /\ \A j \in 1..Len(predictions) :
                         RatLE(predictions[j].score, predictions[i].score)
                   /\ \A j \in 1..(i - 1) :
                         RatLT(predictions[j].score, predictions[i].score)]

\* how a call of predict_hit_and_landing ended: still running, returned the
\* pair (coords, hit), or left by an exception
NoReturn == [kind |-> "pending", coords |-> <<Null, Null>>, hit |-> NoPath]

Returned(coords, hit) == [kind |-> "returned", coords |-> coords, hit |-> hit]

Raised == [kind |-> "raised", coords |-> <<Null, Null>>, hit |-> NoPath]

\* "return None, None"
return_none == Returned(<<Null, Null>>, NoPath)

\* a failure after the selection that drops the hit frame it has found
return_hit_dropped(pred_hit_path) == Returned(<<Null, Null>>, NoPath)

\* "return None, pred_hit_path"
return_hit_only(pred_hit_path) == Returned(<<Null, Null>>, pred_hit_path)

\* a caller that reports the normalised prediction without denormalising it
caller_next_raw(coords, hit_frame_file) ==
    IF coords # <<Null, Null>> /\ hit_frame_file # NoPath THEN "Done" ELSE "Failed"

\* the caller of predict_hit_and_landing: "if predicted_coords and hit_frame_file"
caller_next(coords, hit_frame_file) ==
    IF coords # <<Null, Null>> /\ hit_frame_file # NoPath THEN "Denormalize" ELSE "Failed"

\* ------------------------------------------------------------ Trainer
\* float('inf'): above every loss by more than any min_improvement
inf == MaxLoss + MaxImprovement + 1

\* the weights of a state_dict: those the model holds after an epoch of this
\* run (epoch 0: before training), those of a file an earlier run left at
\* best_model_save_path, or no file at all
WeightsOf(epoch) == [run |-> "this", epoch |-> epoch]

EarlierRun == [run |-> "earlier", epoch |-> 0]

NoFile == [run |-> "none", epoch |-> 0]

\* what one epoch measures: the mean training loss, the mean validation loss
\* and the mean validation MAE over the batches
EpochOutcomes ==
    {[train |-> MaxLoss - l, val |-> l, mae |-> (l + 1) % (MaxLoss + 1)] : l \in 0..MaxLoss}

\* running_train_loss / len(train_loader) if len(train_loader) > 0 else 0.0
epoch_train_loss(mean, batches) == IF batches > 0 THEN mean ELSE 0

\* running_val_loss / len(val_loader) if len(val_loader) > 0 else float('inf')
epoch_val_loss(mean, batches) == IF batches > 0 THEN mean ELSE inf

\* running_val_mae / len(val_loader) if len(val_loader) > 0 else float('inf')
epoch_val_mae(mean, batches) == IF batches > 0 THEN mean ELSE inf

\* a history that records only finite values
recorded_finite(history, train, val, mae) ==
    [train_loss |-> Append(history.train_loss, train),
     val_loss |-> IF val = inf THEN history.val_loss ELSE Append(history.val_loss, val),
     val_mae |-> IF mae = inf THEN history.val_mae ELSE Append(history.val_mae, mae)]

\* history[...].append(...) for the three lists of one epoch
recorded(history, train, val, mae) ==
    [train_loss |-> Append(history.train_loss, train),
     val_loss |-> Append(history.val_loss, val),
     val_mae |-> Append(history.val_mae, mae)]

\* "if epoch_val_loss < best_val_loss - min_improvement"
improved(val_loss, best_val_loss, min_improvement) ==
    val_loss < best_val_loss - min_improvement

\* a counter that an improving epoch leaves as it is
epochs_no_improve_kept(improves, epochs_no_improve) ==
    IF improves THEN epochs_no_improve ELSE epochs_no_improve + 1

\* epochs_no_improve = 0 on an improving epoch, += 1 on any other
epochs_no_improve_next(improves, epochs_no_improve) ==
    IF improves THEN 0 ELSE epochs_no_improve + 1

\* "if epochs_no_improve >= patience": ... break
early_stop(epochs_no_improve, patience) == epochs_no_improve >= patience

\* torch.save(model.state_dict(), best_model_save_path) inside try/except: a
\* save that fails leaves the file as it was
saved(file, improves, save_ok, epoch) ==
    IF improves /\ save_ok THEN WeightsOf(epoch) ELSE file

\* "if os.path.exists(best_model_save_path): model.load_state_dict(...)" inside
\* try/except, on early stop only: the weights the model holds after the epoch
restored(file, stops, load_ok, epoch) ==
    IF stops /\ file # NoFile /\ load_ok THEN file ELSE WeightsOf(epoch)

EmptyHistory == [train_loss |-> <<>>, val_loss |-> <<>>, val_mae |-> <<>>]

TrainInit ==
    /\ r_pc = "none"
    /\ r_epochs = 0
    /\ r_patience = 0
    /\ r_min_improvement = 0
    /\ r_train_batches = 0
    /\ r_val_batches = 0
    /\ r_epoch = 0
    /\ r_history = EmptyHistory
    /\ r_best_val_loss = inf
    /\ r_epochs_no_improve = 0
    /\ r_best_epoch = 0
    /\ r_file = NoFile
    /\ r_model = WeightsOf(0)

\* ------------------------------------------------------------ labeling tools
\* prev_frame of tag_frames.py: "if self.current_frame_idx > 0: ... -= 1"
prev_frame_single(current_frame_idx) ==
    IF current_frame_idx > 0 THEN current_frame_idx - 1 ELSE current_frame_idx

\* a next_frame that may step onto the position after the last frame
next_frame_single_past(current_frame_idx, n_frames) ==
    IF current_frame_idx < n_frames THEN current_frame_idx + 1 ELSE current_frame_idx

\* next_frame of tag_frames.py: "if self.current_frame_idx < len(self.frames) - 1"
next_frame_single(current_frame_idx, n_frames) ==
    IF current_frame_idx < n_frames - 1 THEN current_frame_idx + 1 ELSE current_frame_idx

\* prev_frame and next_frame of tag_frames_multiple.py
prev_frame_multiple(current_frame_idx) ==
    IF current_frame_idx > 0 THEN current_frame_idx - 1 ELSE current_frame_idx

next_frame_multiple(current_frame_idx, n_frames) ==
    IF current_frame_idx < n_frames - 1 THEN current_frame_idx + 1 ELSE current_frame_idx

\* toggle_frame_selection: the current frame leaves or enters selected_frames
toggled(selected_frames, current_frame_idx) ==
    IF current_frame_idx \in selected_frames
    THEN selected_frames \ {current_frame_idx}
    ELSE selected_frames \cup {current_frame_idx}

\* the elements of a set of frame indices as a list
RECURSIVE as_list(_)
as_list(frames) ==
    IF frames = {} THEN <<>>
    ELSE LET first == CHOOSE x \in frames : \A y \in frames : x <= y
         IN  <<first>> \o as_list(frames \ {first})

\* save_csv of tag_frames_multiple.py, the rows of one entry of hit_dict:
\* none for a video of existing_videos, none when frame_paths is empty
\* (video_dir is None), else the selected frames with 1 and then the other
\* .jpg frames of the directory with 0
video_rows(entry, existing_videos) ==
    LET frame_paths == as_list(entry.selected)
        other_frames == as_list((0..(entry.frames - 1)) \ entry.selected)
    IN  IF entry.video \in existing_videos \/ frame_paths = <<>>
        THEN <<>>
        ELSE [k \in 1..Len(frame_paths) |->
                 [video_name |-> entry.video, frame |-> frame_paths[k], is_hit_frame |-> 1]]
             \o [k \in 1..Len(other_frames) |->
                 [video_name |-> entry.video, frame |-> other_frames[k], is_hit_frame |-> 0]]

\* save_csv of tag_frames_multiple.py: the rows of all entries of hit_dict
RECURSIVE save_csv_multiple(_, _)
save_csv_multiple(hit_dict, existing_videos) ==
    IF hit_dict = <<>> THEN <<>>
    ELSE video_rows(Head(hit_dict), existing_videos)
         \o save_csv_multiple(Tail(hit_dict), existing_videos)

\* the while loop that skips the videos of existing_videos: the first index
\* from v on whose video is not in the CSV yet, or the number of videos
RECURSIVE skip_existing(_, _, _)
skip_existing(video_dirs, existing_videos, v) ==
    IF v < Len(video_dirs) /\ At(video_dirs, v).name \in existing_videos
    THEN skip_existing(video_dirs, existing_videos, v + 1)
    ELSE v

\* load_current_dir_videos / move_to_next_dir: the directory and video the
\* tool shows next, starting with the videos of directory d from v on; the
\* directory index is the length of frames_dir_list once all are processed
RECURSIVE next_position(_, _, _, _)
next_position(frames_dir_list, existing_videos, d, v) ==
    LET video_dirs == At(frames_dir_list, d)
        idx == skip_existing(video_dirs, existing_videos, v)
    IN  IF idx < Len(video_dirs) THEN [dir |-> d, video |-> idx]
        ELSE IF d + 1 < Len(frames_dir_list)
        THEN next_position(frames_dir_list, existing_videos, d + 1, 0)
        ELSE [dir |-> d + 1, video |-> idx]

\* hit_frames[video_name] = value: a dict keeps the place of a key it has
dict_set(hit_dict, entry) ==
    IF \E k \in 1..Len(hit_dict) : hit_dict[k].video = entry.video
    THEN [k \in 1..Len(hit_dict) |->
             IF hit_dict[k].video = entry.video THEN entry ELSE hit_dict[k]]
    ELSE Append(hit_dict, entry)

\* the shot directories of the dataset (their names are unique across the
\* frame directories)
VideoNames == {"ICT01", "OST02"}

\* one frames directory: its video directories in listing order
VideoDirs ==
    {<<>>}
    \cup {<<[name |-> a, frames |-> n]>> : a \in VideoNames, n \in 1..MaxToolFrames}
    \cup {l \in {<<[name |-> a, frames |-> n], [name |-> b, frames |-> k]>> :
                     a \in VideoNames, b \in VideoNames,
                     n \in 1..MaxToolFrames, k \in 1..MaxToolFrames} :
              l[1].name # l[2].name}

NamesOf(video_dirs) == {video_dirs[k].name : k \in 1..Len(video_dirs)}

\* frames_dir_list: one directory or more, no video in two of them
FramesDirLists ==
    {l \in UNION {[1..n -> VideoDirs] : n \in 1..MaxDirs} :
        \A i, j \in 1..Len(l) : i # j => NamesOf(l[i]) \cap NamesOf(l[j]) = {}}

\* video_dirs of tag_frames.py: the frame counts of the videos of FRAMES_DIR
SingleVideoDirs == UNION {[1..n -> 1..MaxToolFrames] : n \in 1..MaxToolVideos}

LabelInit ==
    /\ g_pc = "none"
    /\ g_event = "none"
    /\ g_video_dirs = <<>>
    /\ g_video_idx = 0
    /\ g_frame_idx = 0
    /\ g_hit_frames = <<>>
    /\ g_csv = <<>>

MultiInit ==
    /\ m_pc = "none"
    /\ m_event = "none"
    /\ m_dirs = <<>>
    /\ m_existing = {}
    /\ m_dir_idx = 0
    /\ m_video_idx = 0
    /\ m_frame_idx = 0
    /\ m_selected = {}
    /\ m_hit_frames = <<>>
    /\ m_csv = <<>>

\* ------------------------------------------------------------ initial state
CoordInit ==
    /\ c_op = "none"
    /\ c_args = <<>>
    /\ c_res = <<>>

BatchInit ==
    /\ s_pc = "none"
    /\ s_videos = <<>>
    /\ s_landing = {}
    /\ s_n = 0
    /\ s_i = 0
    /\ s_sequences = <<>>
    /\ s_skipped_no_hit = 0
    /\ s_skipped_no_landing = 0
    /\ s_skipped_parse = 0
    /\ s_skipped_short = 0

PipeInit ==
    /\ t_pc = "none"
    /\ t_video = <<>>
    /\ t_weight = <<>>
    /\ t_balanced = {}
    /\ t_landing = FALSE
    /\ t_n = 0
    /\ t_sorted = <<>>
    /\ t_hit_idx = -1
    /\ t_outcome = "none"
    /\ t_seq = <<>>

InferInit ==
    /\ i_stage = "Idle"
    /\ i_models = FALSE
    /\ i_dir = {}
    /\ i_n = 0
    /\ i_sorted = <<>>
    /\ i_k = 0
    /\ i_predictions = <<>>
    /\ i_best = NoPath
    /\ i_hit_idx = -1
    /\ i_seq = <<>>
    /\ i_coords = <<Null, Null>>
    /\ i_meters = <<Null, Null, Null>>
    /\ i_reason = ""
    /\ i_ret = NoReturn

Init ==
    /\ CoordInit
    /\ WeightInit
    /\ BalInit
    /\ SeqInit
    /\ PredInit
    /\ BatchInit
    /\ PipeInit
    /\ InferInit
    /\ TrainInit
    /\ LabelInit
    /\ MultiInit

MapCoordinates ==
    /\ c_op = "none"
    /\ \E ds \in Dists, db \in Dists, st \in ShotTypes, cw \in CourtDims, cl \in CourtDims :
        /\ c_op' = "map"
        /\ c_args' = <<ds, db, st, cw, cl>>
        /\ c_res' = map_coordinates(ds, db, st, cw, cl)
        /\ UNCHANGED <<weightVars, balVars, seqVars, predVars, batchVars, pipeVars, inferVars, trainVars, labelVars, multiVars>>

DenormalizeCoordinates ==
    /\ c_op = "none"
    /\ \E nx \in Norms, ny \in Norms, cw \in CourtDims, cl \in CourtDims :
        /\ c_op' = "denormalize"
        /\ c_args' = <<nx, ny, cw, cl>>
        /\ c_res' = denormalize_coordinates(nx, ny, cw, cl)
        /\ UNCHANGED <<weightVars, balVars, seqVars, predVars, batchVars, pipeVars, inferVars, trainVars, labelVars, multiVars>>

\* denormalize_coordinates followed by map_coordinates on its distances
DenormalizeThenMap ==
    /\ c_op = "none"
    /\ \E nx \in Norms, ny \in Norms, st \in {"Straight", "Cross"},
          cw \in CourtDims, cl \in CourtDims :
        /\ RatLT(Zero, cw) /\ RatLT(Zero, cl)
        /\ LET d == denormalize_coordinates(nx, ny, cw, cl)
           IN  /\ c_op' = "roundtrip"
               /\ c_args' = <<nx, ny, st, cw, cl>>
               /\ c_res' = map_coordinates(SidelineOf(st, d), d[3], st, cw, cl)
        /\ UNCHANGED <<weightVars, balVars, seqVars, predVars, batchVars, pipeVars, inferVars, trainVars, labelVars, multiVars>>

\* the call returns; the next call starts from scratch (the functions are pure)
CoordReturn ==
    /\ c_op # "none"
    /\ c_op' = "none"
    /\ c_args' = <<>>
    /\ c_res' = <<>>
    /\ UNCHANGED <<weightVars, balVars, seqVars, predVars, batchVars, pipeVars, inferVars, trainVars, labelVars, multiVars>>

CoordNext ==
    \/ MapCoordinates
    \/ DenormalizeCoordinates
    \/ DenormalizeThenMap
    \/ CoordReturn

SpecCoord == Init /\ [][CoordNext]_vars

In01(r) == ~isna(r) /\ RatLE(Zero, r) /\ RatLE(r, Unit)

\* C6: for every (x, y) in [0,1]^2 and positive court dimensions, and for each
\* shot type taken separately, map_coordinates applied to the distances
\* returned by denormalize_coordinates (the right-sideline distance for a
\* Straight shot, the left-sideline distance for a Cross shot) gives (x, y).
C6_RoundTrip ==
    (c_op = "roundtrip" /\ In01(c_args[1]) /\ In01(c_args[2]))
        => /\ ~isna(c_res[1]) /\ ~isna(c_res[2])
           /\ RatEq(c_res[1], c_args[1])
           /\ RatEq(c_res[2], c_args[2])

C6_Witness ==
    /\ c_op = "roundtrip"
    /\ c_args[3] = "Straight"
    /\ c_args[1] = Rat(1, NormDen)
    /\ c_args[2] = Rat(NormDen - 1, NormDen)
    /\ c_args[4] = Rat(2, 1)
    /\ RatEq(c_res[1], Rat(1, NormDen))

MapArgsValid ==
    /\ ~isna(c_args[1]) /\ ~isna(c_args[2])
    /\ c_args[3] \in {"Straight", "Cross"}
    /\ RatLT(Zero, c_args[4]) /\ RatLT(Zero, c_args[5])

\* C7: for valid inputs map_coordinates returns
\* y = clip(dist_baseline / court_length, 0, 1) for both shot types,
\* x = clip((court_width - dist_sideline) / court_width, 0, 1) for Straight and
\* x = clip(dist_sideline / court_width, 0, 1) for Cross; both results lie in
\* [0,1]; and for 0 <= dist_sideline <= court_width the two shot types give
\* the same y and x_straight + x_cross = 1.
C7_MapFormula ==
    (c_op = "map" /\ MapArgsValid) =>
        LET ds == c_args[1]
            db == c_args[2]
            st == c_args[3]
            cw == c_args[4]
            cl == c_args[5]
            other == IF st = "Straight" THEN "Cross" ELSE "Straight"
            mirrored == map_coordinates(ds, db, other, cw, cl)
        IN  /\ RatEq(c_res[2], clip(RatDiv(db, cl), Zero, Unit))
            /\ st = "Straight" =>
                   RatEq(c_res[1], clip(RatDiv(RatSub(cw, ds), cw), Zero, Unit))
            /\ st = "Cross" => RatEq(c_res[1], clip(RatDiv(ds, cw), Zero, Unit))
            /\ In01(c_res[1]) /\ In01(c_res[2])
            /\ (RatLE(Zero, ds) /\ RatLE(ds, cw)) =>
                   /\ RatEq(mirrored[2], c_res[2])
                   /\ RatEq(RatAdd(mirrored[1], c_res[1]), Unit)

C7_Witness ==
    /\ c_op = "map" /\ MapArgsValid
    /\ c_args[3] = "Straight"
    /\ c_args[1] = Rat(1, 2)
    /\ c_args[4] = Rat(2, 1)
    /\ RatEq(c_res[1], Rat(3, 4))
    /\ RatLT(Zero, c_res[2]) /\ RatLT(c_res[2], Unit)

\* C8: map_coordinates returns the null pair exactly when a distance is
\* missing, shot_type is missing or is neither Straight nor Cross, or
\* court_width <= 0 or court_length <= 0; otherwise two non-null numbers.
C8_NullPair ==
    c_op = "map" =>
        LET bad == \/ isna(c_args[1]) \/ isna(c_args[2])
                   \/ c_args[3] = "NaN"
                   \/ ~(c_args[3] = "Straight" \/ c_args[3] = "Cross")
                   \/ c_args[4][1] <= 0 \/ c_args[5][1] <= 0
        IN  /\ bad <=> (c_res = <<Null, Null>>)
            /\ ~bad => (~isna(c_res[1]) /\ ~isna(c_res[2]))

C8_Witness ==
    /\ c_op = "map"
    /\ c_args[3] = "Lob"
    /\ ~isna(c_args[1]) /\ ~isna(c_args[2])
    /\ RatLT(Zero, c_args[4]) /\ RatLT(Zero, c_args[5])
    /\ c_res = <<Null, Null>>

\* x brought into [0,1]
Clipped01(x) == IF x[1] < 0 THEN Zero ELSE IF x[1] > x[2] THEN Unit ELSE x

\* C22: denormalize_coordinates clips x and y to [0,1], returns the null triple
\* exactly when court_width <= 0 or court_length <= 0, and otherwise returns
\* (x*width, width - x*width, y*length): left and right distances lie in
\* [0, width] and sum to width, the baseline distance lies in [0, length].
C22_Denormalize ==
    c_op = "denormalize" =>
        LET x == Clipped01(c_args[1])
            y == Clipped01(c_args[2])
            cw == c_args[3]
            cl == c_args[4]
            bad == cw[1] <= 0 \/ cl[1] <= 0
        IN  /\ bad <=> (c_res = <<Null, Null, Null>>)
            /\ ~bad =>
                  /\ ~isna(c_res[1]) /\ ~isna(c_res[2]) /\ ~isna(c_res[3])
                  /\ RatEq(c_res[1], RatMul(x, cw))
                  /\ RatEq(c_res[2], RatSub(cw, RatMul(x, cw)))
                  /\ RatEq(c_res[3], RatMul(y, cl))
                  /\ RatLE(Zero, c_res[1]) /\ RatLE(c_res[1], cw)
                  /\ RatLE(Zero, c_res[2]) /\ RatLE(c_res[2], cw)
                  /\ RatEq(RatAdd(c_res[1], c_res[2]), cw)
                  /\ RatLE(Zero, c_res[3]) /\ RatLE(c_res[3], cl)

\* x above 1 and y below 0 on a 2 x 1 court: the ball is put on the right
\* sideline and on the baseline
C22_Witness ==
    /\ c_op = "denormalize"
    /\ RatLT(Unit, c_args[1]) /\ RatLT(c_args[2], Zero)
    /\ c_args[3] = Rat(2, 1) /\ c_args[4] = Rat(1, 1)
    /\ RatEq(c_res[1], Rat(2, 1)) /\ RatEq(c_res[2], Zero) /\ RatEq(c_res[3], Zero)

\* ------------------------------------------------ WeightAssigner: actions
AssignLinearWeights ==
    /\ w_pc = "none"
    /\ \E group \in Groups, total_frames_window \in 1..MaxWindow, decay_rate \in DecayRates :
        /\ w_pc' = "done"
        /\ w_group' = group
        /\ w_window' = total_frames_window
        /\ w_decay' = decay_rate
        /\ w_middle' = middle_hit_frame_index_in_group(group)
        /\ w_weight' = assign_linear_weights(group, total_frames_window, decay_rate)
        /\ w_result' = weighted_group(group, total_frames_window, decay_rate)
        /\ UNCHANGED <<coordVars, balVars, seqVars, predVars, batchVars, pipeVars, inferVars, trainVars, labelVars, multiVars>>

\* the call returns; the next group is weighted from scratch
WeightReturn ==
    /\ w_pc = "done"
    /\ w_pc' = "none"
    /\ w_group' = <<>>
    /\ w_window' = 0
    /\ w_decay' = Zero
    /\ w_middle' = -1
    /\ w_weight' = <<>>
    /\ w_result' = <<>>
    /\ UNCHANGED <<coordVars, balVars, seqVars, predVars, batchVars, pipeVars, inferVars, trainVars, labelVars, multiVars>>

WeightNext ==
    \/ AssignLinearWeights
    \/ WeightReturn

SpecWeights == Init /\ [][WeightNext]_vars

\* --------------------------------------- DatasetBalancer/Splitter: actions
\* the second split of balance_and_split_data: train/val from the remainder
SplitTrainVal(train_val, test) ==
    LET rel == relative_val_size(b_val_size', b_test_size')
    IN  IF train_test_split_raises(train_val, b_weight', rel)
        THEN /\ b_pc' = "error"
             /\ b_train' = {} /\ b_val' = {} /\ b_test' = {}
        ELSE \E val \in train_test_split(train_val, b_weight', rel) :
                /\ b_pc' = "done"
                /\ b_test' = test
                /\ b_val' = val
                /\ b_train' = train_val \ val

BalanceAndSplitData ==
    /\ b_pc = "none"
    /\ \E n_hit \in 0..MaxPos, n_non_hit \in 0..MaxNeg, balance_ratio \in BalanceRatios,
          test_size \in Fractions, val_size \in Fractions :
        /\ b_weight' = WeightColumn(n_hit, n_non_hit)
        /\ b_ratio' = balance_ratio
        /\ b_test_size' = test_size
        /\ b_val_size' = val_size
        /\ \E sampled \in sampled_non_hit(b_weight', balance_ratio) :
            /\ b_balanced' = hit_frames_weighted(b_weight') \cup sampled
            /\ IF Cardinality(b_balanced') < 3
               THEN /\ b_pc' = not_enough_data(b_balanced').pc
                    /\ b_train' = not_enough_data(b_balanced').train
                    /\ b_val' = {} /\ b_test' = {}
               ELSE IF train_test_split_raises(b_balanced', b_weight', test_size)
               THEN /\ b_pc' = "error"
                    /\ b_train' = {} /\ b_val' = {} /\ b_test' = {}
               ELSE \E test \in train_test_split(b_balanced', b_weight', test_size) :
                       SplitTrainVal(train_val_paths(b_balanced', test), test)
    /\ UNCHANGED <<coordVars, weightVars, seqVars, predVars, batchVars, pipeVars, inferVars, trainVars, labelVars, multiVars>>

\* the call returns or raises; the next call starts from scratch
BalanceReturn ==
    /\ b_pc # "none"
    /\ b_pc' = "none"
    /\ b_weight' = <<>>
    /\ b_ratio' = Zero
    /\ b_test_size' = Zero
    /\ b_val_size' = Zero
    /\ b_balanced' = {}
    /\ b_train' = {} /\ b_val' = {} /\ b_test' = {}
    /\ UNCHANGED <<coordVars, weightVars, seqVars, predVars, batchVars, pipeVars, inferVars, trainVars, labelVars, multiVars>>

BalanceNext ==
    \/ BalanceAndSplitData
    \/ BalanceReturn

SpecBalance == Init /\ [][BalanceNext]_vars

\* C21: a call whose balanced set holds fewer than 3 examples ends in an error
\* and hands back no train, validation or test part
C21_TooFewRaises ==
    (b_pc \in {"done", "error"} /\ Cardinality(b_balanced) < 3) =>
        /\ b_pc = "error"
        /\ b_train = {} /\ b_val = {} /\ b_test = {}

\* a call with two balanced examples and split sizes sklearn accepts has raised
C21_Witness ==
    /\ b_pc = "error"
    /\ Cardinality(b_balanced) = 2
    /\ RatLT(Zero, b_test_size) /\ RatLT(b_test_size, Unit)
    /\ Len(b_weight) > 2

BalancedHits == {i \in b_balanced : RatLT(Zero, b_weight[i])}

BalancedNonHits == {i \in b_balanced : RatEq(b_weight[i], Zero)}

\* C9 as stated: every frame with weight > 0 is kept and exactly
\* min(|negatives|, round(balance_ratio * |positives|)) frames with weight == 0
\* are sampled, without replacement, for every balance_ratio >= 0 including
\* non-integer ones.
C9_SampleRound ==
    b_pc = "done" =>
        /\ BalancedHits = hit_frames_weighted(b_weight)
        /\ BalancedNonHits \subseteq non_hit_frames(b_weight)
        /\ Cardinality(BalancedNonHits) =
               Min(Cardinality(non_hit_frames(b_weight)),
                   round(RatMul(b_ratio, Rat(Cardinality(hit_frames_weighted(b_weight)), 1))))

\* the example of the balancer: 10 frames of weight > 0, 100 of weight 0
Weight110 == WeightColumn(10, 100)

\* floor of the rational x >= 0, by its definition: the largest integer k with k <= x
Floor(x) == CHOOSE k \in 0..x[1] : k * x[2] <= x[1] /\ (k + 1) * x[2] > x[1]

\* C9 as amended: every frame with weight > 0 is kept and exactly
\* min(|negatives|, floor(balance_ratio * |positives|)) frames with weight == 0
\* are sampled, without replacement, for every balance_ratio >= 0
\* (10 positives, ratio 4, 100 negatives: 40 sampled, balanced set size 50).
C9_SampleFloor ==
    /\ b_pc # "none" =>
          /\ BalancedHits = hit_frames_weighted(b_weight)
          /\ BalancedNonHits \subseteq non_hit_frames(b_weight)
          /\ Cardinality(BalancedNonHits) =
                 Min(Cardinality(non_hit_frames(b_weight)),
                     Floor(RatMul(b_ratio, Rat(Cardinality(hit_frames_weighted(b_weight)), 1))))
          /\ Cardinality(b_balanced) =
                 Cardinality(BalancedHits) + Cardinality(BalancedNonHits)
    /\ sample_size(Weight110, Rat(4, 1)) = 40
    /\ Cardinality(hit_frames_weighted(Weight110)) + sample_size(Weight110, Rat(4, 1)) = 50

\* a non-integer ratio whose product with the positives is not an integer, with
\* enough negatives for the target to decide the sample
C9_Witness ==
    /\ b_pc = "done"
    /\ b_ratio = Rat(5, 4)
    /\ Cardinality(hit_frames_weighted(b_weight)) = 3
    /\ Cardinality(non_hit_frames(b_weight)) = 4
    /\ Cardinality(BalancedNonHits) = 3

\* C10: when balance_and_split_data returns, every example of the balanced
\* set is in exactly one of train, validation and test: the three are pairwise
\* disjoint and their union is the balanced set, for any test and validation
\* fractions whose sum is below 1.
C10_Partition ==
    (b_pc = "done" /\ RatLT(RatAdd(b_test_size, b_val_size), Unit)) =>
        /\ b_train \cap b_val = {}
        /\ b_train \cap b_test = {}
        /\ b_val \cap b_test = {}
        /\ b_train \cup b_val \cup b_test = b_balanced
        /\ Cardinality(b_train) + Cardinality(b_val) + Cardinality(b_test)
              = Cardinality(b_balanced)

C10_Witness ==
    /\ b_pc = "done"
    /\ RatLT(RatAdd(b_test_size, b_val_size), Unit)
    /\ b_train # {} /\ b_val # {} /\ b_test # {}
    /\ Cardinality(b_balanced) = 6

\* C20: for every balance_ratio r >= 0 the number of weight-0 frames in the
\* balanced set is at most round(r * positive_count) and at most the number
\* of weight-0 frames available.
C20_SampleBound ==
    b_pc # "none" =>
        /\ Cardinality(BalancedNonHits) <=
               round(RatMul(b_ratio, Rat(Cardinality(hit_frames_weighted(b_weight)), 1)))
        /\ Cardinality(BalancedNonHits) <= Cardinality(non_hit_frames(b_weight))

\* the available weight-0 frames, fewer than the target, are all taken
C20_Witness ==
    /\ b_pc = "done"
    /\ Cardinality(non_hit_frames(b_weight)) = 3
    /\ Cardinality(BalancedNonHits) = 3
    /\ round(RatMul(b_ratio, Rat(Cardinality(hit_frames_weighted(b_weight)), 1))) = 4

WeightArgsValid == w_window % 2 = 1 /\ RatLT(Zero, w_decay)

HasHit == \E i \in 1..Len(w_group) : w_group[i].is_hit_frame = 1

\* C3: for any video with at least one row marked is_hit_frame == 1, after
\* assign_linear_weights exactly one frame of the video has weight 1.0 and
\* every weight lies in [0,1] (window odd and positive, decay positive).
C3_PeakUnique ==
    (w_pc = "done" /\ WeightArgsValid /\ HasHit) =>
        /\ Cardinality({i \in 1..Len(w_group) : RatEq(w_weight[i], Unit)}) = 1
        /\ \A i \in 1..Len(w_group) : In01(w_weight[i])

\* the name of the row at position pos holds no "frame_<digits>"
Unparsable(pos) ==
    LET name == At(w_group, pos).frame_path
    IN  name.stem # "frame_" \/ name.digits < 0

\* the frame index of the row at position pos: its number, or its position
FrameIndex(pos) ==
    IF Unparsable(pos) THEN pos ELSE At(w_group, pos).frame_path.digits

Video20 ==
    [i \in 1..20 |-> [frame_path |-> FrameName("frame_", i - 1),
                      is_hit_frame |-> IF i - 1 = 10 THEN 1 ELSE 0]]

Weights20 == assign_linear_weights(Video20, 9, Rat(3, 10))

\* C4: with distance = |frame_index - canonical_hit_index|, each frame gets
\* weight 1.0 at distance 0, max(0, 1 - distance * decay_rate) when
\* 0 < distance <= window_size // 2, and 0 when distance > window_size // 2
\* (20 frames, hit at 10, window 9, decay 0.3: index 10 -> 1.0,
\* index 12 -> 0.4, index 15 -> 0.0).
C4_WeightFormula ==
    /\ (w_pc = "done" /\ HasHit) =>
          \A i \in 1..Len(w_group) :
              LET distance == Abs(frame_num(w_group, i - 1) - frame_num(w_group, w_middle))
                  decayed == RatSub(Unit, RatMul(Rat(distance, 1), w_decay))
              IN  /\ distance = 0 => RatEq(w_weight[i], Unit)
                  /\ (0 < distance /\ distance <= w_window \div 2) =>
                         RatEq(w_weight[i], IF RatLT(decayed, Zero) THEN Zero ELSE decayed)
                  /\ distance > w_window \div 2 => RatEq(w_weight[i], Zero)
    /\ RatEq(At(Weights20, 10), Unit)
    /\ RatEq(At(Weights20, 12), Rat(4, 10))
    /\ RatEq(At(Weights20, 15), Zero)

C4_Witness ==
    /\ w_pc = "done" /\ HasHit
    /\ w_window = 3
    /\ \E i, j, k \in 1..Len(w_group) :
          /\ i - 1 = w_middle
          /\ Abs(frame_num(w_group, j - 1) - frame_num(w_group, w_middle)) = 1
          /\ RatLT(Zero, w_weight[j]) /\ RatLT(w_weight[j], Unit)
          /\ Abs(frame_num(w_group, k - 1) - frame_num(w_group, w_middle)) = 2
          /\ RatEq(w_weight[k], Zero)

\* the marked rows before / after the canonical row, in row order
HitsBefore == Cardinality({i \in 1..Len(w_group) : w_group[i].is_hit_frame = 1 /\ i - 1 < w_middle})

HitsAfter == Cardinality({i \in 1..Len(w_group) : w_group[i].is_hit_frame = 1 /\ i - 1 > w_middle})

\* C5 as stated: with several frames marked as hit the canonical hit frame is
\* the median one among the marked frames, the lower-middle element when
\* their number is even (the 1st of 2, the 2nd of 4).
C5_LowerMiddle ==
    (w_pc = "done" /\ HasHit) =>
        /\ w_group[w_middle + 1].is_hit_frame = 1
        /\ HitsBefore = (HitsBefore + HitsAfter) \div 2

Hits4 ==
    [i \in 1..5 |-> [frame_path |-> FrameName("frame_", i - 1),
                     is_hit_frame |-> IF i = 1 THEN 0 ELSE 1]]

\* C5 as amended: the canonical hit frame is the marked row at 0-based position
\* count // 2 among the marked rows in row order: the middle one for an odd
\* count, the upper-middle one for an even count (the 2nd of 2, the 3rd of 4).
C5_UpperMiddle ==
    /\ (w_pc = "done" /\ HasHit) =>
          /\ w_group[w_middle + 1].is_hit_frame = 1
          /\ HitsBefore = (HitsBefore + HitsAfter + 1) \div 2
          /\ RatEq(w_weight[w_middle + 1], Unit)
    /\ (w_pc = "done" /\ ~HasHit) => w_middle = -1
    /\ middle_hit_frame_index_in_group(Hits4) = 3

C5_Witness ==
    /\ w_pc = "done"
    /\ HitsBefore = 1 /\ HitsAfter = 0
    /\ \E i \in 1..Len(w_group) : w_group[i].is_hit_frame = 0

\* C18: for a video with no row marked as hit, assign_linear_weights gives
\* weight 0 to every frame and returns the same rows, in the same order, with
\* their other columns unchanged.
C18_NoHitZero ==
    (w_pc = "done" /\ ~HasHit) =>
        /\ Len(w_result) = Len(w_group)
        /\ \A i \in 1..Len(w_group) :
              /\ w_result[i].frame_path = w_group[i].frame_path
              /\ w_result[i].is_hit_frame = w_group[i].is_hit_frame
              /\ RatEq(w_result[i].weight, Zero)
              /\ RatEq(w_weight[i], Zero)

C18_Witness ==
    /\ w_pc = "done"
    /\ ~HasHit
    /\ Len(w_group) = 3
    /\ Len(w_result) = 3
    /\ w_window = 5
    /\ \A i \in 1..3 : RatEq(w_result[i].weight, Zero)

\* the distance of the row at position pos from the canonical hit frame
Distance(pos) == Abs(frame_num(w_group, pos) - frame_num(w_group, w_middle))

\* C19: within one video the weight never increases with the distance
\* |frame_index - canonical_hit_index|: of two frames the one at the smaller or
\* equal distance has the greater or equal weight, and every frame at a
\* distance greater than window_size // 2 has weight exactly 0.
C19_Monotone ==
    (w_pc = "done" /\ HasHit) =>
        /\ \A i, j \in 1..Len(w_group) :
              Distance(i - 1) <= Distance(j - 1) => RatLE(w_weight[j], w_weight[i])
        /\ \A i \in 1..Len(w_group) :
              Distance(i - 1) > w_window \div 2 => RatEq(w_weight[i], Zero)

C19_Witness ==
    /\ w_pc = "done" /\ HasHit
    /\ Len(w_group) = 3
    /\ w_window = 3
    /\ \E i, j, k \in 1..3 :
          /\ Distance(i - 1) = 0 /\ Distance(j - 1) = 1 /\ Distance(k - 1) = 2
          /\ RatLT(w_weight[j], w_weight[i])
          /\ RatLT(Zero, w_weight[j])
          /\ RatEq(w_weight[k], Zero)

\* ----------------------------------------------- SequenceBuilder: actions
\* The notebook is single-threaded: one of the two functions runs at a time.
\* one iteration of the loop of get_sequences over the video groups
GetSequencesVideo ==
    /\ q_pc = "none" /\ p_pc = "none"
    /\ \E group \in SeqGroups, landing \in BOOLEAN, n_frames_sequence \in 1..MaxSeqLen :
        LET paths == {r.frame_path : r \in group}
            sorted_paths == sort_by_frame_num(paths)
            hit_rows == SelectSeq(sorted_paths,
                            LAMBDA x : \E r \in group : r.frame_path = x /\ r.weight = Unit)
            parsed == \A x \in paths : parse_frame_num(x) # -1
            hit_idx_sorted == index_of(sorted_paths, At(hit_rows, Len(hit_rows) \div 2))
            built == seq_paths(sorted_paths, hit_idx_sorted, n_frames_sequence)
        IN  /\ q_pc' = "done"
            /\ q_group' = group
            /\ q_landing' = landing
            /\ q_n' = n_frames_sequence
            /\ IF ~parsed
               THEN /\ q_outcome' = "parse"
                    /\ q_sorted' = <<>> /\ q_hit_idx' = -1 /\ q_seq' = <<>>
               ELSE IF hit_rows = <<>>
               THEN /\ q_outcome' = "no_hit"
                    /\ q_sorted' = sorted_paths /\ q_hit_idx' = -1 /\ q_seq' = <<>>
               ELSE IF ~landing
               THEN /\ q_outcome' = "no_landing"
                    /\ q_sorted' = sorted_paths /\ q_hit_idx' = hit_idx_sorted
                    /\ q_seq' = <<>>
               ELSE /\ q_sorted' = sorted_paths /\ q_hit_idx' = hit_idx_sorted
                    /\ q_seq' = built
                    /\ q_outcome' = IF Len(built) = n_frames_sequence
                                    THEN "success" ELSE "short"
    /\ UNCHANGED <<coordVars, weightVars, balVars, predVars, batchVars, pipeVars, inferVars, trainVars, labelVars, multiVars>>

SeqReturn ==
    /\ q_pc = "done"
    /\ q_pc' = "none"
    /\ q_group' = {}
    /\ q_landing' = FALSE
    /\ q_n' = 0
    /\ q_sorted' = <<>>
    /\ q_hit_idx' = -1
    /\ q_outcome' = "none"
    /\ q_seq' = <<>>
    /\ UNCHANGED <<coordVars, weightVars, balVars, predVars, batchVars, pipeVars, inferVars, trainVars, labelVars, multiVars>>

\* predict_hit_and_landing, part 2: the sequence around the predicted hit frame
PredictBuildSequence ==
    /\ p_pc = "none" /\ q_pc = "none"
    /\ \E dir \in FrameDirs, n_frames_sequence \in 1..MaxSeqLen :
        LET n == IF n_frames_sequence % 2 = 0 THEN n_frames_sequence + 1
                 ELSE n_frames_sequence
            frames_with_numbers == {f \in dir : f.digits >= 0}
            sorted_frame_paths == sort_by_frame_num(frames_with_numbers)
        IN  /\ frames_with_numbers # {}
            /\ \E pred_hit_path \in frames_with_numbers :
                LET pred_hit_idx == index_of(sorted_frame_paths, pred_hit_path)
                IN  /\ p_pc' = "done"
                    /\ p_sorted' = sorted_frame_paths
                    /\ p_hit_idx' = pred_hit_idx
                    /\ p_n' = n
                    /\ p_seq' = sequence_paths(sorted_frame_paths, pred_hit_idx, n)
    /\ UNCHANGED <<coordVars, weightVars, balVars, seqVars, batchVars, pipeVars, inferVars, trainVars, labelVars, multiVars>>

PredReturn ==
    /\ p_pc = "done"
    /\ p_pc' = "none"
    /\ p_sorted' = <<>>
    /\ p_hit_idx' = -1
    /\ p_n' = 0
    /\ p_seq' = <<>>
    /\ UNCHANGED <<coordVars, weightVars, balVars, seqVars, batchVars, pipeVars, inferVars, trainVars, labelVars, multiVars>>

SeqNext ==
    \/ GetSequencesVideo
    \/ SeqReturn
    \/ PredictBuildSequence
    \/ PredReturn

SpecSeq == Init /\ [][SeqNext]_vars

\* ------------------------------------------ get_sequences over a batch
\* the call: the guard on empty tables, then the counters at zero
GetSequencesStart ==
    /\ s_pc = "none"
    /\ \E videos \in Batches, landing \in SUBSET ShotIds, n_frames_sequence \in {2, 3} :
        /\ s_videos' = videos
        /\ s_landing' = landing
        /\ s_n' = n_frames_sequence
        /\ s_pc' = IF videos = <<>> \/ landing = {} THEN "empty_input" ELSE "loop"
        /\ s_i' = 0
        /\ s_sequences' = <<>>
        /\ s_skipped_no_hit' = 0
        /\ s_skipped_no_landing' = 0
        /\ s_skipped_parse' = 0
        /\ s_skipped_short' = 0
    /\ UNCHANGED <<coordVars, weightVars, balVars, seqVars, predVars, pipeVars, inferVars, trainVars, labelVars, multiVars>>

\* one iteration of the loop over video_groups
GetSequencesIteration ==
    /\ s_pc = "loop"
    /\ s_i < Len(s_videos)
    /\ LET video == s_i + 1
           result == video_sequence(s_videos[video], video \in s_landing, s_n)
       IN  /\ s_sequences' = appended(s_sequences, video, result)
           /\ s_skipped_no_hit' = counted(s_skipped_no_hit, result.outcome, "no_hit")
           /\ s_skipped_no_landing' =
                  counted(s_skipped_no_landing, result.outcome, "no_landing")
           /\ s_skipped_parse' = counted(s_skipped_parse, result.outcome, "parse")
           /\ s_skipped_short' = counted(s_skipped_short, result.outcome, "short")
           /\ s_i' = next_group(s_i, result.outcome, Len(s_videos))
    /\ UNCHANGED <<s_pc, s_videos, s_landing, s_n>>
    /\ UNCHANGED <<coordVars, weightVars, balVars, seqVars, predVars, pipeVars, inferVars, trainVars, labelVars, multiVars>>

\* the loop is over: the summary is printed and the sequences are returned
GetSequencesSummary ==
    /\ s_pc = "loop"
    /\ s_i >= Len(s_videos)
    /\ s_pc' = "summary"
    /\ UNCHANGED <<s_videos, s_landing, s_n, s_i, s_sequences, s_skipped_no_hit,
                   s_skipped_no_landing, s_skipped_parse, s_skipped_short>>
    /\ UNCHANGED <<coordVars, weightVars, balVars, seqVars, predVars, pipeVars, inferVars, trainVars, labelVars, multiVars>>

BatchReturn ==
    /\ s_pc \in {"summary", "empty_input"}
    /\ s_pc' = "none"
    /\ s_videos' = <<>>
    /\ s_landing' = {}
    /\ s_n' = 0
    /\ s_i' = 0
    /\ s_sequences' = <<>>
    /\ s_skipped_no_hit' = 0
    /\ s_skipped_no_landing' = 0
    /\ s_skipped_parse' = 0
    /\ s_skipped_short' = 0
    /\ UNCHANGED <<coordVars, weightVars, balVars, seqVars, predVars, pipeVars, inferVars, trainVars, labelVars, multiVars>>

BatchNext ==
    \/ GetSequencesStart
    \/ GetSequencesIteration
    \/ GetSequencesSummary
    \/ BatchReturn

SpecBatch == Init /\ [][BatchNext]_vars

\* the videos of the batch whose shot id has no landing record
NoLandingVideos == {v \in 1..Len(s_videos) : v \notin s_landing}

\* the videos that produced a sequence
Produced == {s_sequences[k].video : k \in 1..Len(s_sequences)}

\* what a video yields when it is the only video of the batch
Alone(v) == video_sequence(s_videos[v], v \in s_landing, s_n)

\* C16 as stated: a video whose shot identifier has no landing record
\* produces no sequence and raises no error, every other video of the batch is
\* still processed and produces its sequence, and the no-landing skip counter
\* ends up equal to the number of such videos.
C16_NoLandingCount ==
    s_pc = "summary" =>
        /\ s_i = Len(s_videos)
        /\ Produced \cap NoLandingVideos = {}
        /\ \A v \in 1..Len(s_videos) :
              Alone(v).outcome = "success" =>
                  \E k \in 1..Len(s_sequences) :
                      s_sequences[k] = [video |-> v, sequence_paths |-> Alone(v).seq_paths]
        /\ s_skipped_no_landing = Cardinality(NoLandingVideos)

\* the videos that reach the landing lookup: every frame name parses and a
\* row has weight 1.0
ReachLookup == {v \in 1..Len(s_videos) : Alone(v).outcome \notin {"parse", "no_hit"}}

\* C16 as amended: the no-landing skip counter ends up equal to the number of
\* videos without a landing record among those whose frame names all parse
\* and that hold a frame of weight 1.0; the rest of the claim as stated.
C16_NoLandingReached ==
    /\ s_pc = "summary" =>
          /\ s_i = Len(s_videos)
          /\ Produced \cap NoLandingVideos = {}
          /\ \A v \in 1..Len(s_videos) :
                Alone(v).outcome = "success" =>
                    \E k \in 1..Len(s_sequences) :
                        s_sequences[k] = [video |-> v, sequence_paths |-> Alone(v).seq_paths]
          /\ Len(s_sequences) = Cardinality(Produced)
          /\ s_skipped_no_landing = Cardinality(NoLandingVideos \cap ReachLookup)
    /\ s_pc = "loop" => s_skipped_no_landing <= s_i

\* a video without a landing record is skipped and the video after it still
\* produces its sequence
C16_Witness ==
    /\ s_pc = "summary"
    /\ Len(s_videos) = 2
    /\ NoLandingVideos = {1}
    /\ s_skipped_no_landing = 1
    /\ Produced = {2}

\* C17: after the loop of get_sequences every video is counted in exactly one
\* category: sequences produced + skipped_no_hit + skipped_no_landing +
\* skipped_parse + skipped_short equals the number of video groups.
C17_Accounting ==
    /\ s_pc \in {"loop", "summary"} =>
          Len(s_sequences) + s_skipped_no_hit + s_skipped_no_landing
              + s_skipped_parse + s_skipped_short = s_i
    /\ s_pc = "summary" =>
          /\ s_i = Len(s_videos)
          /\ Len(s_sequences) + s_skipped_no_hit + s_skipped_no_landing
                + s_skipped_parse + s_skipped_short = Len(s_videos)

C17_Witness ==
    /\ s_pc = "summary"
    /\ Len(s_videos) = 2
    /\ s_skipped_short = 1
    /\ s_skipped_parse = 1
    /\ Len(s_sequences) = 0

\* ------------------------------- sequence preparation of the notebook
\* One video through the cells of the notebook: assign_linear_weights on its
\* group of df_meta, balance_and_split_data on the whole table (this video and
\* the weight-0 frames of the other videos), get_sequences on df_balanced_cnn1.
PrepareSequences ==
    /\ t_pc = "none"
    /\ \E L \in 1..MaxFrames, others \in {0, MaxOtherNonHit}, landing \in BOOLEAN :
       \E h \in -1..(L - 1) :
        LET video == VideoRows(L, h)
            weight == assign_linear_weights(video, CNN1_N_FRAMES_WEIGHTING, CNN1_WEIGHT_DECAY)
            hits == hit_frames_weighted(weight)
            non_hits == non_hit_frames(weight)
            target == target_non_hit_count(Rat(CNN1_BALANCE_RATIO, 1), Cardinality(hits))
            size == Min(Cardinality(non_hits) + others, target)
        IN  \E sampled \in SUBSET non_hits :
                /\ Cardinality(sampled) <= size
                /\ size - Cardinality(sampled) <= others
                /\ t_video' = video
                /\ t_weight' = weight
                /\ t_landing' = landing
                /\ t_n' = CNN2_N_FRAMES_SEQUENCE
                /\ \E raised \in balance_raises(Cardinality(hits), size) :
                     IF raised
                     THEN /\ t_pc' = "error"
                          /\ t_balanced' = {}
                          /\ t_sorted' = <<>>
                          /\ t_hit_idx' = -1
                          /\ t_outcome' = "none"
                          /\ t_seq' = <<>>
                     ELSE LET balanced == hits \cup sampled
                              result == video_sequence(
                                            balanced_group(video, weight, balanced),
                                            landing, CNN2_N_FRAMES_SEQUENCE)
                          IN  /\ t_pc' = "done"
                              /\ t_balanced' = balanced
                              /\ t_sorted' = result.sorted_paths
                              /\ t_hit_idx' = result.hit_idx_sorted
                              /\ t_outcome' = result.outcome
                              /\ t_seq' = result.seq_paths
    /\ UNCHANGED <<coordVars, weightVars, balVars, seqVars, predVars, batchVars, inferVars, trainVars, labelVars, multiVars>>

PipeReturn ==
    /\ t_pc # "none"
    /\ t_pc' = "none"
    /\ t_video' = <<>>
    /\ t_weight' = <<>>
    /\ t_balanced' = {}
    /\ t_landing' = FALSE
    /\ t_n' = 0
    /\ t_sorted' = <<>>
    /\ t_hit_idx' = -1
    /\ t_outcome' = "none"
    /\ t_seq' = <<>>
    /\ UNCHANGED <<coordVars, weightVars, balVars, seqVars, predVars, batchVars, inferVars, trainVars, labelVars, multiVars>>

PipeNext ==
    \/ PrepareSequences
    \/ PipeReturn

SpecPipe == Init /\ [][PipeNext]_vars

\* the complete sorted frame list of the video
VideoFrames == [k \in 1..Len(t_video) |-> t_video[k].frame_path]

\* C15: every training sequence produced by get_sequences as the pipeline
\* calls it is a window over the video's complete sorted frame list: position
\* k holds the frame k - N // 2 places from the hit frame in that list, and a
\* frame is repeated only where the window reaches before the video's first
\* frame or past its last one.
C15_CompleteWindow ==
    (t_pc = "done" /\ t_outcome = "success") =>
        LET hit == index_of(VideoFrames, At(t_sorted, t_hit_idx))
        IN  /\ t_sorted = VideoFrames
            /\ \A k \in 0..(t_n - 1) :
                  At(t_seq, k) =
                      At(VideoFrames,
                         clip_int(hit - t_n \div 2 + k, 0, Len(VideoFrames) - 1))

\* C1: for every odd sequence length N and every hit-frame position in a video
\* (the first and the last frame included, and videos with fewer than N
\* frames), the clamped window built by get_sequences and by
\* predict_hit_and_landing holds exactly N frame references.
C1_Length ==
    /\ (q_pc = "done" /\ q_n % 2 = 1 /\ q_outcome \in {"success", "short"}) =>
          /\ Len(q_seq) = q_n
          /\ q_outcome = "success"
    /\ (p_pc = "done" /\ p_n % 2 = 1) => Len(p_seq) = p_n

C1_Witness ==
    /\ q_pc = "done"
    /\ q_outcome = "success"
    /\ q_n = 5
    /\ Len(q_sorted) = 2
    /\ q_hit_idx = 1
    /\ Len(q_seq) = 5

\* the video of the clamping example: 20 frames, indices 0..19
Frames20 == [i \in 1..20 |-> FrameName("frame_", i - 1)]

Clamped20 == [k \in 1..9 |-> FrameName("frame_", IF k <= 6 THEN 13 + k ELSE 19)]

\* C2: with half = N // 2 and hit index h in a sorted frame list of length L,
\* position k (0 <= k < N) of the sequence holds frame
\* clip(h - half + k, 0, L - 1): the first frame is repeated where the window
\* reaches before index 0 and the last frame where it reaches past the last
\* index (N=5, h=0 gives [0,0,0,1,2]; L=20, N=9, h=18 gives
\* [14,15,16,17,18,19,19,19,19]).
C2_Clamp ==
    /\ (q_pc = "done" /\ q_outcome = "success") =>
          /\ \A k \in 0..(q_n - 1) :
                At(q_seq, k) =
                    At(q_sorted, Max(0, Min(Len(q_sorted) - 1, q_hit_idx - q_n \div 2 + k)))
          /\ (q_n = 5 /\ q_hit_idx = 0 /\ Len(q_sorted) >= 3) =>
                q_seq = <<q_sorted[1], q_sorted[1], q_sorted[1], q_sorted[2], q_sorted[3]>>
    /\ p_pc = "done" =>
          /\ \A k \in 0..(p_n - 1) :
                At(p_seq, k) =
                    At(p_sorted, Max(0, Min(Len(p_sorted) - 1, p_hit_idx - p_n \div 2 + k)))
          /\ (p_n = 5 /\ p_hit_idx = 0 /\ Len(p_sorted) >= 3) =>
                p_seq = <<p_sorted[1], p_sorted[1], p_sorted[1], p_sorted[2], p_sorted[3]>>
    /\ seq_paths(Frames20, 18, 9) = Clamped20
    /\ sequence_paths(Frames20, 18, 9) = Clamped20

C2_Witness ==
    /\ p_pc = "done"
    /\ p_n = 5
    /\ p_hit_idx = 0
    /\ Len(p_sorted) = 3
    /\ p_sorted = <<FrameName("frame_", 0), FrameName("frame_", 2), FrameName("frame_", 3)>>
    /\ p_seq = <<FrameName("frame_", 0), FrameName("frame_", 0), FrameName("frame_", 0),
                 FrameName("frame_", 2), FrameName("frame_", 3)>>

\* ------------------------------------------- InferencePipeline: actions
\* the run ends without a landing prediction
Fail(reason, ret) ==
    /\ i_stage' = "Failed"
    /\ i_reason' = reason
    /\ i_ret' = ret

\* the call of predict_hit_and_landing: the check of the models and the
\* adjustment of an even n_frames_sequence
StartInference ==
    /\ i_stage = "Idle"
    /\ \E models \in BOOLEAN, dir \in InferDirs, n_frames_sequence \in 1..(MaxFiles + 1) :
        /\ i_models' = models
        /\ i_dir' = dir
        /\ i_n' = IF n_frames_sequence % 2 = 0 THEN n_frames_sequence + 1
                  ELSE n_frames_sequence
        /\ IF models
           THEN i_stage' = "ListFrames" /\ i_reason' = "" /\ i_ret' = NoReturn
           ELSE Fail("ModelsNotLoaded", return_none)
    /\ UNCHANGED <<i_sorted, i_k, i_predictions, i_best, i_hit_idx, i_seq, i_coords, i_meters>>
    /\ UNCHANGED <<coordVars, weightVars, balVars, seqVars, predVars, batchVars, pipeVars, trainVars, labelVars, multiVars>>

\* part 1: list and sort the frames
ListFrames ==
    /\ i_stage = "ListFrames"
    /\ IF i_dir = Missing
       THEN Fail("ListError", return_none) /\ UNCHANGED i_sorted
       ELSE IF listed_frames(i_dir) = {}
       THEN Fail("NoParsableFrames", return_none) /\ UNCHANGED i_sorted
       ELSE /\ i_sorted' = sorted_frames(listed_frames(i_dir))
            /\ i_stage' = "ScoreFrames"
            /\ UNCHANGED <<i_reason, i_ret>>
    /\ UNCHANGED <<i_models, i_dir, i_n, i_k, i_predictions, i_best, i_hit_idx, i_seq,
                   i_coords, i_meters>>
    /\ UNCHANGED <<coordVars, weightVars, balVars, seqVars, predVars, batchVars, pipeVars, trainVars, labelVars, multiVars>>

\* CNN1 inference, one frame of the loop
ScoreFrame ==
    /\ i_stage = "ScoreFrames"
    /\ i_k < Len(i_sorted)
    /\ LET frame_path == At(i_sorted, i_k)
           status == status_of(i_dir, frame_path)
       IN  /\ \E score \in Scores :
                 i_predictions' = scored(i_predictions, frame_path, status, score)
           /\ i_k' = next_frame(i_k, status, Len(i_sorted))
    /\ UNCHANGED <<i_stage, i_models, i_dir, i_n, i_sorted, i_best, i_hit_idx, i_seq,
                   i_coords, i_meters, i_reason, i_ret>>
    /\ UNCHANGED <<coordVars, weightVars, balVars, seqVars, predVars, batchVars, pipeVars, trainVars, labelVars, multiVars>>

\* after the loop: "if not predictions_cnn1: return None, None"
ScoreFramesEnd ==
    /\ i_stage = "ScoreFrames"
    /\ i_k >= Len(i_sorted)
    /\ IF i_predictions = <<>>
       THEN Fail("NoScores", return_none)
       ELSE i_stage' = "SelectBestHit" /\ UNCHANGED <<i_reason, i_ret>>
    /\ UNCHANGED <<i_models, i_dir, i_n, i_sorted, i_k, i_predictions, i_best, i_hit_idx,
                   i_seq, i_coords, i_meters>>
    /\ UNCHANGED <<coordVars, weightVars, balVars, seqVars, predVars, batchVars, pipeVars, trainVars, labelVars, multiVars>>

SelectBestHit ==
    /\ i_stage = "SelectBestHit"
    /\ i_best' = best_hit(i_predictions).path
    /\ i_stage' = "BuildSequence"
    /\ UNCHANGED <<i_models, i_dir, i_n, i_sorted, i_k, i_predictions, i_hit_idx, i_seq,
                   i_coords, i_meters, i_reason, i_ret>>
    /\ UNCHANGED <<coordVars, weightVars, balVars, seqVars, predVars, batchVars, pipeVars, trainVars, labelVars, multiVars>>

\* part 2: the sequence around the predicted hit frame
BuildSequence ==
    /\ i_stage = "BuildSequence"
    /\ IF \A k \in 1..Len(i_sorted) : i_sorted[k] # i_best
       THEN Fail("HitNotFound", return_hit_only(i_best)) /\ UNCHANGED <<i_hit_idx, i_seq>>
       ELSE LET pred_hit_idx == index_of(i_sorted, i_best)
                built == sequence_paths(i_sorted, pred_hit_idx, i_n)
            IN  /\ i_hit_idx' = pred_hit_idx
                /\ i_seq' = built
                /\ IF Len(built) # i_n
                   THEN Fail("SequenceLengthMismatch", return_hit_only(i_best))
                   ELSE i_stage' = "PredictLanding" /\ UNCHANGED <<i_reason, i_ret>>
    /\ UNCHANGED <<i_models, i_dir, i_n, i_sorted, i_k, i_predictions, i_best, i_coords,
                   i_meters>>
    /\ UNCHANGED <<coordVars, weightVars, balVars, seqVars, predVars, batchVars, pipeVars, trainVars, labelVars, multiVars>>

\* part 3: the frames of the sequence are loaded (an image that does not load
\* raises IOError: "return None, pred_hit_path"), CNN2 predicts (its forward
\* pass is outside every try: an exception it raises leaves the function), and
\* the function returns to its caller
PredictLanding ==
    /\ i_stage = "PredictLanding"
    /\ IF \E k \in 1..Len(i_seq) : status_of(i_dir, i_seq[k]) = "unreadable"
       THEN Fail("SequencePreprocess", return_hit_only(i_best)) /\ UNCHANGED i_coords
       ELSE \/ Fail("ModelError", Raised) /\ UNCHANGED i_coords
            \/ \E predicted_norm_coords \in Predictions :
                  /\ i_coords' = predicted_norm_coords
                  /\ i_ret' = Returned(predicted_norm_coords, i_best)
                  /\ i_stage' = caller_next(predicted_norm_coords, i_best)
                  /\ i_reason' = IF caller_next(predicted_norm_coords, i_best) = "Failed"
                                 THEN "NoResult" ELSE i_reason
    /\ UNCHANGED <<i_models, i_dir, i_n, i_sorted, i_k, i_predictions, i_best, i_hit_idx,
                   i_seq, i_meters>>
    /\ UNCHANGED <<coordVars, weightVars, balVars, seqVars, predVars, batchVars, pipeVars, trainVars, labelVars, multiVars>>

\* the caller: denormalize_coordinates(*predicted_coords)
Denormalize ==
    /\ i_stage = "Denormalize"
    /\ i_meters' = denormalize_coordinates(i_coords[1], i_coords[2],
                                          DOUBLES_COURT_WIDTH_M, HALF_COURT_LENGTH_M)
    /\ i_stage' = "Done"
    /\ UNCHANGED <<i_models, i_dir, i_n, i_sorted, i_k, i_predictions, i_best, i_hit_idx,
                   i_seq, i_coords, i_reason, i_ret>>
    /\ UNCHANGED <<coordVars, weightVars, balVars, seqVars, predVars, batchVars, pipeVars, trainVars, labelVars, multiVars>>

\* the run is over; the next run starts from scratch
InferReturn ==
    /\ i_stage \in {"Done", "Failed"}
    /\ i_stage' = "Idle"
    /\ i_models' = FALSE
    /\ i_dir' = {}
    /\ i_n' = 0
    /\ i_sorted' = <<>>
    /\ i_k' = 0
    /\ i_predictions' = <<>>
    /\ i_best' = NoPath
    /\ i_hit_idx' = -1
    /\ i_seq' = <<>>
    /\ i_coords' = <<Null, Null>>
    /\ i_meters' = <<Null, Null, Null>>
    /\ i_reason' = ""
    /\ i_ret' = NoReturn
    /\ UNCHANGED <<coordVars, weightVars, balVars, seqVars, predVars, batchVars, pipeVars, trainVars, labelVars, multiVars>>

\* the steps of a run once it has started
InferRun ==
    \/ ListFrames
    \/ ScoreFrame
    \/ ScoreFramesEnd
    \/ SelectBestHit
    \/ BuildSequence
    \/ PredictLanding
    \/ Denormalize

InferNext ==
    \/ StartInference
    \/ InferRun
    \/ InferReturn

SpecInfer == Init /\ [][InferNext]_vars

\* the control flow is synchronous: a run that has started goes on to its end
SpecInferFair == SpecInfer /\ WF_vars(InferRun)

\* C11: every inference run goes through ListFrames, ScoreFrames,
\* SelectBestHit, BuildSequence, PredictLanding, Denormalize in that order,
\* never skipping or repeating a stage; it always ends in Done, reached only
\* from Denormalize, or in Failed, and after Failed no stage of the run runs.
C11_StageOrder ==
    /\ [][i_stage' # i_stage =>
            \/ i_stage = "Idle" /\ i_stage' \in {"ListFrames", "Failed"}
            \/ \E k \in 1..6 : i_stage = Stages[k] /\ i_stage' \in {Stages[k + 1], "Failed"}
            \/ i_stage \in {"Done", "Failed"} /\ i_stage' = "Idle"]_vars
    /\ (i_stage \notin {"Idle", "Done", "Failed"}) ~> (i_stage \in {"Done", "Failed"})

C11_Witness ==
    /\ i_stage = "Done"
    /\ Len(i_sorted) = 2
    /\ Len(i_predictions) = 2
    /\ Len(i_seq) = 3
    /\ i_coords \in Predictions
    /\ i_meters # <<Null, Null, Null>>

\* the frames of sorted_frame_paths up to position k that were scored
ScoredUpTo(k) ==
    SelectSeq(SubSeq(i_sorted, 1, k), LAMBDA x : status_of(i_dir, x) = "ok")

PredictionPaths == [j \in 1..Len(i_predictions) |-> i_predictions[j].path]

\* C12: in ScoreFrames a frame whose read or scoring fails is skipped and the
\* run goes on with the remaining frames; the run fails with NoScores only
\* when no frame at all produced a score, and whenever at least one frame was
\* scored the run proceeds to the selection of the hit frame.
C12_SkipUnscored ==
    /\ i_stage = "ScoreFrames" => PredictionPaths = ScoredUpTo(i_k)
    /\ i_stage \in {"SelectBestHit", "BuildSequence", "PredictLanding", "Denormalize", "Done"} =>
          /\ PredictionPaths = ScoredUpTo(Len(i_sorted))
          /\ i_predictions # <<>>
    /\ (i_stage = "Failed" /\ i_reason = "NoScores") =>
          /\ i_k = Len(i_sorted)
          /\ \A k \in 1..Len(i_sorted) : status_of(i_dir, i_sorted[k]) # "ok"
    /\ (i_stage = "Failed" /\ i_reason \notin {"ModelsNotLoaded", "ListError", "NoParsableFrames", "NoScores"}) =>
          /\ PredictionPaths = ScoredUpTo(Len(i_sorted))
          /\ i_predictions # <<>>
          /\ i_best # NoPath

\* a frame that does not load comes before a frame that is scored
C12_Witness ==
    /\ i_stage = "SelectBestHit"
    /\ Len(i_sorted) = 2
    /\ status_of(i_dir, i_sorted[1]) = "unreadable"
    /\ status_of(i_dir, i_sorted[2]) = "ok"
    /\ Len(i_predictions) = 1

\* C13: the selected hit frame has the maximum score among the scored frames
\* and, when several frames share the maximum, it is the earliest of them in
\* the sorted frame order.
C13_FirstMaximum ==
    i_best # NoPath =>
        /\ \A j \in 1..(Len(i_predictions) - 1) :
              index_of(i_sorted, i_predictions[j].path)
                  < index_of(i_sorted, i_predictions[j + 1].path)
        /\ \E i \in 1..Len(i_predictions) :
              /\ i_predictions[i].path = i_best
              /\ \A j \in 1..Len(i_predictions) :
                    RatLE(i_predictions[j].score, i_predictions[i].score)
              /\ \A j \in 1..Len(i_predictions) :
                    (RatEq(i_predictions[j].score, i_predictions[i].score) /\ j # i) =>
                        index_of(i_sorted, i_best) < index_of(i_sorted, i_predictions[j].path)

\* two frames share the maximum
C13_Witness ==
    /\ i_stage = "BuildSequence"
    /\ Len(i_predictions) = 2
    /\ RatEq(i_predictions[1].score, i_predictions[2].score)
    /\ i_best = i_sorted[1]

\* C14: a failure to read a single image never aborts the inference run: in
\* scoring the frame is skipped as scoreless, in the preprocessing of the
\* built sequence it is replaced by a black frame, and the run still produces
\* a landing prediction (whenever the forward pass of CNN2 itself succeeds).
C14_ReadFailureTolerated ==
    /\ i_stage \in {"SelectBestHit", "BuildSequence", "PredictLanding", "Denormalize", "Done"} =>
          \A j \in 1..Len(i_predictions) : status_of(i_dir, i_predictions[j].path) = "ok"
    /\ (i_stage \in {"Done", "Failed"} /\ i_predictions # <<>> /\ i_reason # "ModelError") =>
          /\ i_stage = "Done"
          /\ i_coords \in Predictions

\* the function has ended, by a return or by an exception
CallEnded == i_ret.kind # "pending"

\* the function failed: it ended without coordinates
CallFailed == CallEnded /\ i_ret.coords = <<Null, Null>>

\* C24 as stated: predict_hit_and_landing returns (None, None) when no file
\* has a parsable frame number and for every other failure before a hit frame
\* is selected; for every failure after the selection it returns
\* (None, hit_path); coordinates come only together with a hit path, and a
\* returned hit path is one of the scored frames.
C24_EveryFailureReturns ==
    /\ (CallFailed /\ i_best = NoPath) => i_ret = Returned(<<Null, Null>>, NoPath)
    /\ (i_stage = "Failed" /\ i_reason = "NoParsableFrames") =>
           i_ret = Returned(<<Null, Null>>, NoPath)
    /\ (CallFailed /\ i_best # NoPath) => i_ret = Returned(<<Null, Null>>, i_best)
    /\ (CallEnded /\ i_ret.coords # <<Null, Null>>) => i_ret.hit # NoPath
    /\ (CallEnded /\ i_ret.hit # NoPath) =>
           \E j \in 1..Len(i_predictions) : i_predictions[j].path = i_ret.hit

\* C24 as amended: the same, except that after the selection only the
\* failures the function catches (hit frame not found in the list, sequence
\* of the wrong length, a sequence frame that cannot be prepared) return
\* (None, hit_path); an exception of the CNN2 forward pass leaves the
\* function without a return value.
C24_CaughtFailureReturns ==
    /\ (CallFailed /\ i_best = NoPath) => i_ret = Returned(<<Null, Null>>, NoPath)
    /\ (i_stage = "Failed" /\ i_reason = "NoParsableFrames") =>
           i_ret = Returned(<<Null, Null>>, NoPath)
    /\ (CallFailed /\ i_best # NoPath) =>
           IF i_reason = "ModelError"
           THEN i_ret.kind = "raised"
           ELSE i_ret = Returned(<<Null, Null>>, i_best)
    /\ (CallEnded /\ i_ret.coords # <<Null, Null>>) => i_ret.hit # NoPath
    /\ (CallEnded /\ i_ret.hit # NoPath) =>
           \E j \in 1..Len(i_predictions) : i_predictions[j].path = i_ret.hit

\* a run whose selected hit frame is scored but whose sequence holds a frame
\* that cannot be loaded: the hit path comes back without coordinates
C24_Witness ==
    /\ i_stage = "Failed"
    /\ i_reason = "SequencePreprocess"
    /\ i_best # NoPath
    /\ i_ret = Returned(<<Null, Null>>, i_best)
    /\ Len(i_predictions) = 1
    /\ Len(i_sorted) = 2

\* ------------------------------------------------------- Trainer: actions
\* the call of run_final_training, up to the head of the epoch loop
RunFinalTraining ==
    /\ r_pc = "none"
    /\ \E epochs \in 0..MaxEpochs, patience \in 0..MaxPatience,
          min_improvement \in 0..MaxImprovement,
          train_batches \in {0, 1}, val_batches \in {0, 1}, file \in {NoFile, EarlierRun} :
        /\ r_pc' = "loop"
        /\ r_epochs' = epochs
        /\ r_patience' = patience
        /\ r_min_improvement' = min_improvement
        /\ r_train_batches' = train_batches
        /\ r_val_batches' = val_batches
        /\ r_file' = file
    /\ r_epoch' = 0
    /\ r_history' = EmptyHistory
    /\ r_best_val_loss' = inf
    /\ r_epochs_no_improve' = 0
    /\ r_best_epoch' = 0
    /\ r_model' = WeightsOf(0)
    /\ UNCHANGED <<coordVars, weightVars, balVars, seqVars, predVars, batchVars, pipeVars, inferVars, labelVars, multiVars>>

\* one pass of "for epoch in range(epochs)": training, validation, the
\* early-stopping bookkeeping and, on early stop, the reload and the break
Epoch ==
    /\ r_pc = "loop"
    /\ r_epoch < r_epochs
    /\ \E out \in EpochOutcomes, save_ok \in BOOLEAN, load_ok \in BOOLEAN :
        LET epoch == r_epoch + 1
            train == epoch_train_loss(out.train, r_train_batches)
            val == epoch_val_loss(out.val, r_val_batches)
            mae == epoch_val_mae(out.mae, r_val_batches)
            improves == improved(val, r_best_val_loss, r_min_improvement)
            no_improve == epochs_no_improve_next(improves, r_epochs_no_improve)
            stops == early_stop(no_improve, r_patience)
            file == saved(r_file, improves, save_ok, epoch)
        IN  /\ r_history' = recorded(r_history, train, val, mae)
            /\ r_best_val_loss' = IF improves THEN val ELSE r_best_val_loss
            /\ r_best_epoch' = IF improves THEN epoch ELSE r_best_epoch
            /\ r_epochs_no_improve' = no_improve
            /\ r_file' = file
            /\ r_model' = restored(file, stops, load_ok, epoch)
            /\ r_epoch' = epoch
            /\ r_pc' = IF stops THEN "stopped" ELSE "loop"
    /\ UNCHANGED <<r_epochs, r_patience, r_min_improvement, r_train_batches, r_val_batches>>
    /\ UNCHANGED <<coordVars, weightVars, balVars, seqVars, predVars, batchVars, pipeVars, inferVars, labelVars, multiVars>>

\* a forward or backward pass that raises: nothing in the loop catches it, so
\* the exception leaves the function, in the training phase or (after the
\* training loss has been recorded) in the validation phase
EpochRaises ==
    /\ r_pc = "loop"
    /\ r_epoch < r_epochs
    /\ \/ /\ r_train_batches > 0
          /\ UNCHANGED r_history
       \/ /\ r_val_batches > 0
          /\ \E out \in EpochOutcomes :
                r_history' = [r_history EXCEPT !.train_loss =
                                 Append(@, epoch_train_loss(out.train, r_train_batches))]
    /\ r_pc' = "raised"
    /\ UNCHANGED <<r_epochs, r_patience, r_min_improvement, r_train_batches, r_val_batches,
                   r_epoch, r_best_val_loss, r_epochs_no_improve, r_best_epoch, r_file, r_model>>
    /\ UNCHANGED <<coordVars, weightVars, balVars, seqVars, predVars, batchVars, pipeVars, inferVars, labelVars, multiVars>>

\* range(epochs) is exhausted: the history is saved and returned
EpochsExhausted ==
    /\ r_pc = "loop"
    /\ r_epoch >= r_epochs
    /\ r_pc' = "finished"
    /\ UNCHANGED <<r_epochs, r_patience, r_min_improvement, r_train_batches, r_val_batches,
                   r_epoch, r_history, r_best_val_loss, r_epochs_no_improve, r_best_epoch,
                   r_file, r_model>>
    /\ UNCHANGED <<coordVars, weightVars, balVars, seqVars, predVars, batchVars, pipeVars, inferVars, labelVars, multiVars>>

\* the call is over; the next run starts from scratch
TrainReturn ==
    /\ r_pc \in {"stopped", "finished", "raised"}
    /\ r_pc' = "none"
    /\ r_epochs' = 0
    /\ r_patience' = 0
    /\ r_min_improvement' = 0
    /\ r_train_batches' = 0
    /\ r_val_batches' = 0
    /\ r_epoch' = 0
    /\ r_history' = EmptyHistory
    /\ r_best_val_loss' = inf
    /\ r_epochs_no_improve' = 0
    /\ r_best_epoch' = 0
    /\ r_file' = NoFile
    /\ r_model' = WeightsOf(0)
    /\ UNCHANGED <<coordVars, weightVars, balVars, seqVars, predVars, batchVars, pipeVars, inferVars, labelVars, multiVars>>

TrainNext ==
    \/ RunFinalTraining
    \/ Epoch
    \/ EpochRaises
    \/ EpochsExhausted
    \/ TrainReturn

SpecTrain == Init /\ [][TrainNext]_vars

\* run_final_training has returned its history
Returned25 == r_pc \in {"stopped", "finished"}

\* C25: the returned history has one entry per completed epoch in each of
\* train_loss, val_loss and val_mae: the three lists have the same length,
\* the number of epochs executed, which is at least 1 when epochs >= 1 and
\* never above epochs, also after an early stop.
C25_HistoryLength ==
    Returned25 =>
        /\ Len(r_history.train_loss) = r_epoch
        /\ Len(r_history.val_loss) = r_epoch
        /\ Len(r_history.val_mae) = r_epoch
        /\ r_epochs >= 1 => r_epoch >= 1
        /\ r_epoch <= r_epochs

\* an early stop after two of three epochs, with an empty validation loader
C25_Witness ==
    /\ r_pc = "stopped"
    /\ r_epochs = 3
    /\ r_epoch = 2
    /\ r_val_batches = 0
    /\ r_history.val_loss = <<inf, inf>>
    /\ Len(r_history.train_loss) = 2

\* best_val_loss after k epochs, from the validation losses of the history:
\* the last loss that fell below the best before it by more than min_improvement
RECURSIVE BestAfter(_)
BestAfter(k) ==
    IF k = 0 THEN inf
    ELSE IF r_history.val_loss[k] < BestAfter(k - 1) - r_min_improvement
         THEN r_history.val_loss[k]
         ELSE BestAfter(k - 1)

\* epoch k brought the validation loss below best_val_loss - min_improvement
Improving(k) == r_history.val_loss[k] < BestAfter(k - 1) - r_min_improvement

\* the number of consecutive epochs without improvement that end with epoch k
RECURSIVE Streak(_)
Streak(k) ==
    IF k = 0 THEN 0
    ELSE IF Improving(k) THEN 0
    ELSE Streak(k - 1) + 1

\* C27: epochs_no_improve is reset to 0 by each improving epoch and grows by 1
\* on each other epoch; training stops right after the first epoch at which
\* patience consecutive epochs have passed without the validation loss
\* falling below best_val_loss - min_improvement, never earlier, and
\* otherwise runs all epochs.
C27_EarlyStop ==
    r_pc \in {"loop", "stopped", "finished"} =>
        /\ Len(r_history.val_loss) = r_epoch
        /\ r_epochs_no_improve = Streak(r_epoch)
        /\ r_pc = "stopped" =>
              /\ r_epoch >= 1
              /\ Streak(r_epoch) >= r_patience
              /\ \A k \in 1..(r_epoch - 1) : Streak(k) < r_patience
        /\ r_pc \in {"loop", "finished"} =>
              \A k \in 1..r_epoch : Streak(k) < r_patience
        /\ r_pc = "finished" => r_epoch = r_epochs

\* patience 2: an improvement at epoch 3 resets the count of epoch 2, and the
\* run stops after epochs 4 and 5, whose losses are lower than the best but
\* not by more than min_improvement
C27_Witness ==
    /\ r_pc = "stopped"
    /\ r_patience = 2
    /\ r_min_improvement = 1
    /\ r_epochs = 5
    /\ r_val_batches = 1
    /\ r_history.val_loss = <<2, 2, 0, 0, 0>>
    /\ r_epochs_no_improve = 2

\* C28: whenever run_final_training stops early, the model it leaves behind
\* holds the weights saved at epoch best_epoch of this run and best_val_loss
\* is the validation loss the history records for that epoch; best_val_loss
\* never increases from one epoch to the next. (A run in which no epoch ever
\* improved has no best epoch; its model must still hold weights of this run.)
C28_BestWeightsRestored ==
    /\ r_pc = "stopped" =>
          /\ r_model.run = "this"
          /\ r_best_epoch >= 1 =>
                /\ r_best_epoch <= r_epoch
                /\ r_model = WeightsOf(r_best_epoch)
                /\ r_best_val_loss = r_history.val_loss[r_best_epoch]
    /\ r_pc \in {"loop", "stopped", "finished"} =>
          /\ r_best_val_loss = BestAfter(r_epoch)
          /\ \A k \in 1..r_epoch : BestAfter(k) <= BestAfter(k - 1)

\* the frames of weight 1.0 of the group of get_sequences, in sorted order
HitPaths ==
    SelectSeq(q_sorted, LAMBDA x : \E r \in q_group : r.frame_path = x /\ r.weight = Unit)

\* C29: in every sequence built around a hit frame, by get_sequences and by
\* predict_hit_and_landing, position N // 2 holds the hit frame itself,
\* wherever the hit frame lies in the video, the first and the last frame
\* (where the window is clamped) included.
C29_MiddleIsHit ==
    /\ (q_pc = "done" /\ q_outcome = "success") =>
          /\ At(q_seq, q_n \div 2) = At(q_sorted, q_hit_idx)
          /\ At(q_seq, q_n \div 2) = At(HitPaths, Len(HitPaths) \div 2)
    /\ p_pc = "done" =>
          /\ p_hit_idx \in 0..(Len(p_sorted) - 1)
          /\ At(p_seq, p_n \div 2) = At(p_sorted, p_hit_idx)

\* the hit frame is the last of three frames and the window of 5 is clamped
\* on its right: the hit frame fills the middle and both positions after it
C29_Witness ==
    /\ q_pc = "done"
    /\ q_outcome = "success"
    /\ q_n = 5
    /\ Len(q_sorted) = 3
    /\ q_hit_idx = 2
    /\ q_seq = <<q_sorted[1], q_sorted[2], q_sorted[3], q_sorted[3], q_sorted[3]>>

\* ------------------------------------------------ labeling tool, tag_frames.py
\* LabelTool(root, video_dirs, ...): __init__ loads the first video
SingleStart ==
    /\ g_pc = "none"
    /\ m_pc = "none"
    /\ \E video_dirs \in SingleVideoDirs :
        /\ g_pc' = "labeling"
        /\ g_event' = "load"
        /\ g_video_dirs' = video_dirs
        /\ g_video_idx' = 0
        /\ g_frame_idx' = 0
        /\ g_hit_frames' = <<>>
        /\ g_csv' = <<>>
    /\ UNCHANGED <<coordVars, weightVars, balVars, seqVars, predVars, batchVars, pipeVars, inferVars, trainVars, multiVars>>

\* <Left>: prev_frame
SingleLeft ==
    /\ g_pc = "labeling"
    /\ g_event' = "Left"
    /\ g_frame_idx' = prev_frame_single(g_frame_idx)
    /\ UNCHANGED <<g_pc, g_video_dirs, g_video_idx, g_hit_frames, g_csv>>
    /\ UNCHANGED <<coordVars, weightVars, balVars, seqVars, predVars, batchVars, pipeVars, inferVars, trainVars, multiVars>>

\* <Right>: next_frame
SingleRight ==
    /\ g_pc = "labeling"
    /\ g_event' = "Right"
    /\ g_frame_idx' = next_frame_single(g_frame_idx, At(g_video_dirs, g_video_idx))
    /\ UNCHANGED <<g_pc, g_video_dirs, g_video_idx, g_hit_frames, g_csv>>
    /\ UNCHANGED <<coordVars, weightVars, balVars, seqVars, predVars, batchVars, pipeVars, inferVars, trainVars, multiVars>>

\* <space>: select_hit_frame records the current frame, then load_video for
\* the next video or save_csv and quit after the last one
SingleSpace ==
    /\ g_pc = "labeling"
    /\ g_event' = "space"
    /\ g_hit_frames' = Append(g_hit_frames, [video |-> g_video_idx, frame |-> g_frame_idx])
    /\ g_video_idx' = g_video_idx + 1
    /\ IF g_video_idx' < Len(g_video_dirs)
       THEN /\ g_frame_idx' = 0
            /\ UNCHANGED <<g_pc, g_csv>>
       ELSE /\ g_csv' = g_hit_frames'
            /\ g_pc' = "closed"
            /\ UNCHANGED g_frame_idx
    /\ UNCHANGED g_video_dirs
    /\ UNCHANGED <<coordVars, weightVars, balVars, seqVars, predVars, batchVars, pipeVars, inferVars, trainVars, multiVars>>

\* the window's close button: on_closing saves and destroys the window
SingleClose ==
    /\ g_pc = "labeling"
    /\ g_event' = "close"
    /\ g_csv' = g_hit_frames
    /\ g_pc' = "closed"
    /\ UNCHANGED <<g_video_dirs, g_video_idx, g_frame_idx, g_hit_frames>>
    /\ UNCHANGED <<coordVars, weightVars, balVars, seqVars, predVars, batchVars, pipeVars, inferVars, trainVars, multiVars>>

\* the process ends; the next session starts afresh
SingleReturn ==
    /\ g_pc = "closed"
    /\ g_pc' = "none"
    /\ g_event' = "none"
    /\ g_video_dirs' = <<>>
    /\ g_video_idx' = 0
    /\ g_frame_idx' = 0
    /\ g_hit_frames' = <<>>
    /\ g_csv' = <<>>
    /\ UNCHANGED <<coordVars, weightVars, balVars, seqVars, predVars, batchVars, pipeVars, inferVars, trainVars, multiVars>>

\* --------------------------------------- labeling tool, tag_frames_multiple.py
\* the number of frames of the video the tool shows
current_frames == At(At(m_dirs, m_dir_idx), m_video_idx).frames

\* os.path.basename(self.current_video)
current_video_name == At(At(m_dirs, m_dir_idx), m_video_idx).name

\* LabelTool(root, frames_dir_list, ...): __init__ reads existing_videos from
\* the CSV and load_current_dir_videos shows the first video not in it; when
\* every video is in the CSV already, move_to_next_dir saves and no video is
\* ever shown
MultiStart ==
    /\ g_pc = "none"
    /\ m_pc = "none"
    /\ \E frames_dir_list \in FramesDirLists, existing_videos \in SUBSET VideoNames :
        LET pos == next_position(frames_dir_list, existing_videos, 0, 0)
        IN  /\ m_dirs' = frames_dir_list
            /\ m_existing' = existing_videos
            /\ m_event' = "load"
            /\ m_dir_idx' = pos.dir
            /\ m_video_idx' = pos.video
            /\ m_frame_idx' = 0
            /\ m_selected' = {}
            /\ m_hit_frames' = <<>>
            /\ m_csv' = <<>>
            /\ m_pc' = IF pos.dir < Len(frames_dir_list) THEN "labeling" ELSE "closed"
    /\ UNCHANGED <<coordVars, weightVars, balVars, seqVars, predVars, batchVars, pipeVars, inferVars, trainVars, labelVars>>

\* <Left>: prev_frame
MultiLeft ==
    /\ m_pc = "labeling"
    /\ m_event' = "Left"
    /\ m_frame_idx' = prev_frame_multiple(m_frame_idx)
    /\ UNCHANGED <<m_pc, m_dirs, m_existing, m_dir_idx, m_video_idx, m_selected,
                   m_hit_frames, m_csv>>
    /\ UNCHANGED <<coordVars, weightVars, balVars, seqVars, predVars, batchVars, pipeVars, inferVars, trainVars, labelVars>>

\* <Right>: next_frame
MultiRight ==
    /\ m_pc = "labeling"
    /\ m_event' = "Right"
    /\ m_frame_idx' = next_frame_multiple(m_frame_idx, current_frames)
    /\ UNCHANGED <<m_pc, m_dirs, m_existing, m_dir_idx, m_video_idx, m_selected,
                   m_hit_frames, m_csv>>
    /\ UNCHANGED <<coordVars, weightVars, balVars, seqVars, predVars, batchVars, pipeVars, inferVars, trainVars, labelVars>>

\* <space>: toggle_frame_selection
MultiSpace ==
    /\ m_pc = "labeling"
    /\ m_event' = "space"
    /\ m_selected' = toggled(m_selected, m_frame_idx)
    /\ UNCHANGED <<m_pc, m_dirs, m_existing, m_dir_idx, m_video_idx, m_frame_idx,
                   m_hit_frames, m_csv>>
    /\ UNCHANGED <<coordVars, weightVars, balVars, seqVars, predVars, batchVars, pipeVars, inferVars, trainVars, labelVars>>

\* <Return>: finish_current_video. With no frame selected the user is asked
\* and "no" returns; otherwise the selection is stored under the video's name
\* and the tool moves to the next video that is not in the CSV, or saves and
\* quits after the last directory
MultiReturnKey ==
    /\ m_pc = "labeling"
    /\ m_event' = "Return"
    /\ \E askyesno \in BOOLEAN :
        IF m_selected = {} /\ ~askyesno
        THEN UNCHANGED <<m_pc, m_dir_idx, m_video_idx, m_frame_idx, m_selected,
                         m_hit_frames, m_csv>>
        ELSE LET pos == next_position(m_dirs, m_existing, m_dir_idx, m_video_idx + 1)
             IN  /\ m_hit_frames' = dict_set(m_hit_frames,
                        [video |-> current_video_name, frames |-> current_frames,
                         selected |-> m_selected])
                 /\ m_dir_idx' = pos.dir
                 /\ m_video_idx' = pos.video
                 /\ IF pos.dir < Len(m_dirs)
                    THEN /\ m_frame_idx' = 0
                         /\ m_selected' = {}
                         /\ UNCHANGED <<m_pc, m_csv>>
                    ELSE /\ m_csv' = save_csv_multiple(m_hit_frames', m_existing)
                         /\ m_pc' = "closed"
                         /\ UNCHANGED <<m_frame_idx, m_selected>>
    /\ UNCHANGED <<m_dirs, m_existing>>
    /\ UNCHANGED <<coordVars, weightVars, balVars, seqVars, predVars, batchVars, pipeVars, inferVars, trainVars, labelVars>>

\* the window's close button: on_closing saves and destroys the window
MultiClose ==
    /\ m_pc = "labeling"
    /\ m_event' = "close"
    /\ m_csv' = save_csv_multiple(m_hit_frames, m_existing)
    /\ m_pc' = "closed"
    /\ UNCHANGED <<m_dirs, m_existing, m_dir_idx, m_video_idx, m_frame_idx, m_selected,
                   m_hit_frames>>
    /\ UNCHANGED <<coordVars, weightVars, balVars, seqVars, predVars, batchVars, pipeVars, inferVars, trainVars, labelVars>>

\* the process ends; the next session starts afresh
MultiReturn ==
    /\ m_pc = "closed"
    /\ m_pc' = "none"
    /\ m_event' = "none"
    /\ m_dirs' = <<>>
    /\ m_existing' = {}
    /\ m_dir_idx' = 0
    /\ m_video_idx' = 0
    /\ m_frame_idx' = 0
    /\ m_selected' = {}
    /\ m_hit_frames' = <<>>
    /\ m_csv' = <<>>
    /\ UNCHANGED <<coordVars, weightVars, balVars, seqVars, predVars, batchVars, pipeVars, inferVars, trainVars, labelVars>>

LabelNext ==
    \/ SingleStart
    \/ SingleLeft
    \/ SingleRight
    \/ SingleSpace
    \/ SingleClose
    \/ SingleReturn
    \/ MultiStart
    \/ MultiLeft
    \/ MultiRight
    \/ MultiSpace
    \/ MultiReturnKey
    \/ MultiClose
    \/ MultiReturn

SpecLabel == Init /\ [][LabelNext]_vars

\* the rows save_csv wrote for one frame of one video
RowsOf(video, frame) ==
    {k \in 1..Len(m_csv) : m_csv[k].video_name = video /\ m_csv[k].frame = frame}

FrameIdxInRange ==
    /\ g_pc = "labeling" =>
           g_frame_idx \in 0..(At(g_video_dirs, g_video_idx) - 1)
    /\ m_pc = "labeling" => m_frame_idx \in 0..(current_frames - 1)

\* Left at the first frame and Right at the last frame change nothing
EdgeKeysIdle ==
    /\ g_pc = "labeling" /\ g_event' = "Left" /\ g_frame_idx = 0
           => UNCHANGED <<g_pc, g_video_dirs, g_video_idx, g_frame_idx, g_hit_frames, g_csv>>
    /\ g_pc = "labeling" /\ g_event' = "Right"
           /\ g_frame_idx = At(g_video_dirs, g_video_idx) - 1
           => UNCHANGED <<g_pc, g_video_dirs, g_video_idx, g_frame_idx, g_hit_frames, g_csv>>
    /\ m_pc = "labeling" /\ m_event' = "Left" /\ m_frame_idx = 0
           => UNCHANGED <<m_pc, m_dirs, m_existing, m_dir_idx, m_video_idx, m_frame_idx,
                          m_selected, m_hit_frames, m_csv>>
    /\ m_pc = "labeling" /\ m_event' = "Right" /\ m_frame_idx = current_frames - 1
           => UNCHANGED <<m_pc, m_dirs, m_existing, m_dir_idx, m_video_idx, m_frame_idx,
                          m_selected, m_hit_frames, m_csv>>

\* a step that shows another video shows its first frame
LoadResets ==
    /\ g_pc' = "labeling" /\ (g_pc # "labeling" \/ g_video_idx' # g_video_idx)
           => g_frame_idx' = 0
    /\ m_pc' = "labeling"
           /\ (m_pc # "labeling" \/ m_video_idx' # m_video_idx \/ m_dir_idx' # m_dir_idx)
           => m_frame_idx' = 0

\* C30: in both labeling tools, through any sequence of Left, Right and
\* selection keys on videos with at least one frame, current_frame_idx stays
\* within [0, number of frames of the current video - 1], Left at the first
\* frame and Right at the last frame change nothing, and loading the next
\* video resets current_frame_idx to 0.
C30_FrameIndexBounds ==
    /\ []FrameIdxInRange
    /\ [][EdgeKeysIdle /\ LoadResets]_vars

\* the case of tag_frames.py: in its second video, of two frames or more, the
\* tool stands at the last frame after Right, having recorded a later frame
\* than the first for the first video
SingleAtLastFrame ==
    /\ g_pc = "labeling"
    /\ g_video_idx = 1
    /\ g_event = "Right"
    /\ g_frame_idx = At(g_video_dirs, g_video_idx) - 1
    /\ g_frame_idx > 0
    /\ g_hit_frames[1].frame > 0

\* the case of tag_frames_multiple.py: in its second video, of two frames or
\* more, the tool stands at the last frame after Right, having stored a
\* selection for the first video
MultiAtLastFrame ==
    /\ m_pc = "labeling"
    /\ Len(m_hit_frames) = 1
    /\ m_hit_frames[1].selected # {}
    /\ m_event = "Right"
    /\ m_frame_idx = current_frames - 1
    /\ m_frame_idx > 0

\* one of the two tools (a session runs one of them) stands at the last
\* frame of its second video after Right
C30_Witness == SingleAtLastFrame \/ MultiAtLastFrame

====
